---- MODULE Spec2Model ----
(***************************************************************************)
(* LUXBIN quantum loop: the codebook and the outcome decoder, the          *)
(* persistent loop of luxbin_persistent_loop.py (specification Spec) and   *)
(* the single-run pipeline of luxbin_ibm_live.py /                         *)
(* luxbin_quantum_full_experiment.py (specification SpecRun).              *)
(*                                                                         *)
(* A message is a sequence of one-character strings.  An Outcome           *)
(* Distribution (a Python dict, which keeps insertion order) is a sequence *)
(* of records [key, count] with distinct keys; a key is a sequence of bits.*)
(* Channel values are kept as integers: Light and Sound in tenths,         *)
(* Microwave in thousandths; a ratio value/max_val is kept as the pair.    *)
(*                                                                         *)
(* The Oracle (run_hw) is opaque: a call returns one of a sample of        *)
(* Outcome Distributions or raises.  The status text written by log() is   *)
(* not part of the state, and its writes are taken to succeed.             *)
(***************************************************************************)
EXTENDS Integers, Sequences, FiniteSets, TLC

\* --------------------------------------------------------------------------
\* Bounds of the model
\* --------------------------------------------------------------------------
\* iterations one process may start before the model stops it
MaxLoops == 2
\* processes started after the first one (restart after a stop or a crash)
MaxRestarts == 1

\* --------------------------------------------------------------------------
\* Codebook
\* --------------------------------------------------------------------------
\* iteration order of the three tables: A..Z, then space
Symbols ==
  << "A", "B", "C", "D", "E", "F", "G", "H", "I", "J", "K", "L", "M",
     "N", "O", "P", "Q", "R", "S", "T", "U", "V", "W", "X", "Y", "Z", " " >>

\* Light values in tenths of a nanometre
CHAR_WAVELENGTHS ==
  << 4000, 4039, 4078, 4117, 4156, 4195, 4234, 4273, 4312, 4351,
     4390, 4429, 4468, 4506, 4545, 4584, 4623, 4662, 4701, 4740,
     4779, 4818, 4857, 4896, 4935, 4974, 5403 >>

\* Sound values in tenths of a hertz
CHAR_FREQUENCIES ==
  << 4400, 4939, 5233, 5873, 6593, 6985, 7840, 8306, 8800, 9323,
     9878, 10465, 11087, 11747, 12445, 13185, 13969, 14800, 15680, 16612,
     17600, 18647, 19755, 20930, 22175, 23493, 2626 >>

\* the Microwave table with the space symbol on the value of K
MicrowavesSpaceOnK ==
  << 4000, 4154, 4308, 4462, 4615, 4769, 4923, 5077, 5231, 5385,
     5538, 5692, 5846, 6000, 6154, 6308, 6462, 6615, 6769, 6923,
     7077, 7231, 7385, 7538, 7692, 7846, 5538 >>

\* Microwave values in thousandths of a gigahertz
CHAR_MICROWAVES ==
  << 4000, 4154, 4308, 4462, 4615, 4769, 4923, 5077, 5231, 5385,
     5538, 5692, 5846, 6000, 6154, 6308, 6462, 6615, 6769, 6923,
     7077, 7231, 7385, 7538, 7692, 7846, 5500 >>

Abs(x) == IF x < 0 THEN -x ELSE x

\* the search keeping the last of several equidistant entries
NearestLast(table, num, den) ==
  LET d(i) == Abs(table[i] * den - num)
      best == CHOOSE i \in 1..Len(table) :
                /\ \A j \in 1..Len(table) : d(i) <= d(j)
                /\ \A j \in (i + 1)..Len(table) : d(j) > d(i)
  IN Symbols[best]

\* min(table.items(), key=lambda x: abs(x[1] - v))[0] for v = num/den:
\* the first entry, in table order, whose distance to v is minimal
NearestFirst(table, num, den) ==
  LET d(i) == Abs(table[i] * den - num)
      dists == { d(i) : i \in 1..Len(table) }
      smallest == CHOOSE x \in dists : \A y \in dists : x <= y
      best == CHOOSE i \in 1..Len(table) :
                /\ d(i) = smallest
                /\ \A j \in 1..(i - 1) : d(j) # smallest
  IN Symbols[best]

\* wl = 400 + ratio * 300, ratio = v / m; argument in tenths, times m
wavelength_to_char(v, m) == NearestFirst(CHAR_WAVELENGTHS, 4000 * m + 3000 * v, m)
\* freq = 262.6 + ratio * (2349.3 - 262.6)
frequency_to_char(v, m) == NearestFirst(CHAR_FREQUENCIES, 2626 * m + 20867 * v, m)
\* mw = MW_MIN + ratio * (MW_MAX - MW_MIN)
microwave_to_char(v, m) == NearestFirst(CHAR_MICROWAVES, 4000 * m + 4000 * v, m)

\* --------------------------------------------------------------------------
\* Outcome decoder
\* --------------------------------------------------------------------------
\* int(bitstring, 2) of a non-empty bit string, most significant bit first
IntValue(bits) ==
  LET val[i \in 0..Len(bits)] == IF i = 0 THEN 0 ELSE 2 * val[i - 1] + bits[i]
  IN val[Len(bits)]

\* 2 ** n
Pow2(n) ==
  LET pow[i \in 0..n] == IF i = 0 THEN 1 ELSE 2 * pow[i - 1]
  IN pow[n]

\* index of the first entry with the largest count: max(items, key=count)
FirstMax(counts) ==
  CHOOSE i \in 1..Len(counts) :
    /\ \A j \in 1..Len(counts) : counts[j].count <= counts[i].count
    /\ \A j \in 1..(i - 1) : counts[j].count < counts[i].count

\* sorted(counts.items(), key=lambda x: -x[1]): by count, largest first; the
\* sort is stable, so entries of equal count keep their insertion order
SortedCounts(counts) ==
  LET rank(i) ==
        Cardinality({ j \in 1..Len(counts) :
                        \/ counts[j].count > counts[i].count
                        \/ counts[j].count = counts[i].count /\ j < i }) + 1
  IN [r \in 1..Len(counts) |->
        counts[CHOOSE i \in 1..Len(counts) : rank(i) = r]]

\* the three channel votes of one key of width >= 1
ChannelVotes(key) ==
  LET value == IntValue(key)
      max_val == Pow2(Len(key)) - 1
  IN << wavelength_to_char(value, max_val),
        frequency_to_char(value, max_val),
        microwave_to_char(value, max_val) >>

\* the majority of the channels is ignored: always the Light vote
ResolveVotesLightOnly(votes) == votes[1]

\* Counter(votes).most_common(1)[0], then winner if it has >= 2 votes
ResolveVotes(votes) ==
  IF votes[1] = votes[2] \/ votes[1] = votes[3] THEN votes[1]
  ELSE IF votes[2] = votes[3] THEN votes[2]
  ELSE votes[1]

Min(a, b) == IF a < b THEN a ELSE b

\* the loop body of decode_counts over the selected entries, in rank order
DecodeKeys(top) ==
  LET msg[i \in 0..Len(top)] ==
        IF i = 0 THEN << >>
        ELSE Append(msg[i - 1], ResolveVotes(ChannelVotes(top[i].key)))
  IN msg[Len(top)]

\* a decoder without the cut to n_chars: one symbol for every key
decode_countsAll(counts, n_chars) ==
  LET sorted_counts == SortedCounts(counts)
  IN IF \E i \in 1..Len(sorted_counts) : sorted_counts[i].key = << >>
     THEN [ok |-> FALSE, msg |-> << >>]
     ELSE [ok |-> TRUE, msg |-> DecodeKeys(sorted_counts)]

\* a decoder that gives up on a key whose three channels all disagree
decode_countsStrict(counts, n_chars) ==
  LET sorted_counts == SortedCounts(counts)
      top == SubSeq(sorted_counts, 1, Min(n_chars, Len(sorted_counts)))
      votes(i) == ChannelVotes(top[i].key)
  IN IF \E i \in 1..Len(top) :
          \/ top[i].key = << >>
          \/ Cardinality({ votes(i)[1], votes(i)[2], votes(i)[3] }) = 3
     THEN [ok |-> FALSE, msg |-> << >>]
     ELSE [ok |-> TRUE, msg |-> DecodeKeys(top)]

\* decode_counts: [ok |-> TRUE, msg |-> decoded message], or ok = FALSE when
\* int(bitstring, 2) raises ValueError on the empty bit string
decode_counts(counts, n_chars) ==
  LET sorted_counts == SortedCounts(counts)
      top == SubSeq(sorted_counts, 1, Min(n_chars, Len(sorted_counts)))
  IN IF \E i \in 1..Len(top) : top[i].key = << >>
     THEN [ok |-> FALSE, msg |-> << >>]
     ELSE [ok |-> TRUE, msg |-> DecodeKeys(top)]

\* --------------------------------------------------------------------------
\* Transform requests and the Oracle
\* --------------------------------------------------------------------------
\* the message every loop starts from and is reset to: "NICHE"
DefaultMsg == << "N", "I", "C", "H", "E" >>

\* backend_a, backend_b, backend_c
Nodes == 1..3

\* n = min(len(msg), 5): the width of the circuit and of its outcome keys
CircuitWidth(msg) == Min(Len(msg), 5)

\* the proposal passed on as it is, without the filler
build_consensusNoPad(msg) == SubSeq(msg, 1, Min(Len(msg), 5))

\* msg = (msg + 'AAAAA')[:5]
build_consensus(msg) == SubSeq(msg \o << "A", "A", "A", "A", "A" >>, 1, 5)

Repeat(x, n) ==
  LET rep[i \in 0..n] == IF i = 0 THEN << >> ELSE Append(rep[i - 1], x)
  IN rep[n]

Zeros(n) == Repeat(0, n)
Ones(n) == Repeat(1, n)

\* The Outcome Distributions run_hw may return for a circuit of n qubits (it
\* may also raise, which the callers model).  The Oracle is opaque, so this is
\* a sample: two keys whose insertion order is not their rank order, and the
\* malformed empty distribution; a register of 0 bits has the empty pattern as
\* its only key.
run_hw(n) ==
  IF n = 0 THEN { << [key |-> << >>, count |-> 1] >> }
  ELSE { << [key |-> Zeros(n), count |-> 1], [key |-> Ones(n), count |-> 2] >>,
         << >> }

\* counts, jid = run_hw(...); response, ... = decode_counts(counts) when
\* run_hw returns: err is "local" when decode_counts raises
RunAndDecodeWidth(n) ==
  { LET d == decode_counts(counts, 5)
    IN IF d.ok THEN [err |-> "none", msg |-> d.msg]
       ELSE [err |-> "local", msg |-> << >>] : counts \in run_hw(n) }

\* the outcomes for each circuit width, evaluated once
RunAndDecodeTable ==
  << RunAndDecodeWidth(0), RunAndDecodeWidth(1), RunAndDecodeWidth(2),
     RunAndDecodeWidth(3), RunAndDecodeWidth(4), RunAndDecodeWidth(5) >>

RunAndDecode(msg) == RunAndDecodeTable[CircuitWidth(msg) + 1]

\* the vote taken from the 3-channel majority of the decoder
VoteOfThreeChannels(counts) ==
  IF counts = << >> \/ counts[FirstMax(counts)].key = << >>
  THEN [err |-> "local", vote |-> ""]
  ELSE [err |-> "none",
        vote |-> ResolveVotes(ChannelVotes(counts[FirstMax(counts)].key))]

\* the vote with the key value spread over the populated part of the Light
\* table, 400..540.3
VoteOfTableRange(counts) ==
  IF counts = << >> \/ counts[FirstMax(counts)].key = << >>
  THEN [err |-> "local", vote |-> ""]
  ELSE [err |-> "none",
        vote |-> NearestFirst(CHAR_WAVELENGTHS,
                              4000 * 31 + 1403 * IntValue(counts[FirstMax(counts)].key),
                              31)]

\* the body of do_vote: the Light-channel symbol of the most frequent key
VoteOf(counts) ==
  IF counts = << >> \/ counts[FirstMax(counts)].key = << >>
  THEN [err |-> "local", vote |-> ""]
  ELSE [err |-> "none",
        vote |-> wavelength_to_char(IntValue(counts[FirstMax(counts)].key), 31)]

\* do_vote when its run_hw returns; max() of an empty dict raises ValueError
VoteOutcomes ==
  { VoteOf(counts) : counts \in run_hw(5) }

do_vote(msg) == VoteOutcomes

Occurrences(votes, s) == Cardinality({i \in 1..Len(votes) : votes[i] = s})

\* the vote that completed first, whatever the others are
MajoritiesFirstVote(votes) == { votes[1] }

\* max(set(votes), key=votes.count): a symbol with the most occurrences; among
\* several the iteration order of the set decides, which no run fixes
Majorities(votes) ==
  { votes[i] : i \in { k \in 1..Len(votes) :
      \A j \in 1..Len(votes) :
        Occurrences(votes, votes[j]) <= Occurrences(votes, votes[k]) } }

\* consensus = ''.join(votes); padded with majority to 5; current = consensus[:5]
ConsensusMsg(votes, majority) ==
  SubSeq(votes \o Repeat(majority, 5), 1, 5)

\* --------------------------------------------------------------------------
\* State
\* --------------------------------------------------------------------------
VARIABLES
  pc,             \* position of the main thread
  running,        \* the cooperative shutdown flag
  loop_num,       \* iterations started by this process
  total_jobs,     \* jobs of all recorded iterations of this process
  current,        \* the current message
  response,       \* the message decoded last
  jobs_this_loop, \* job references collected in this iteration
  leg,            \* relay leg about to run
  rally,          \* ping-pong rally about to run
  round,          \* echo round about to run (single run)
  futs,           \* the three consensus tasks: state, vote, error, request
  completed,      \* nodes in the order their tasks completed
  votes,          \* vote symbols in the order as_completed yielded them
  loop_data,      \* the Loop Record of this iteration
  results,        \* save_loop_result: the list about to be written
  LOG_FILE,       \* the Loop Record file: exists, valid JSON array, records
  pipeline_log,   \* single run: the Pipeline Log
  all_jobs,       \* single run: job references in the order collected
  relay_out,      \* single run: the relay output
  err,            \* kind of the exception raised last ("none" if none)
  trace,          \* history: Oracle invocations of this pass, in order
  last_req,       \* history: the request of the latest sequential Oracle call
  loop_input,     \* history: the message this iteration started with
  last,           \* history: the latest finished iteration, how it ended
                  \* and the kind of error that ended it
  final_out,      \* history: the message decoded by the latest FINAL ECHO
  waited,         \* history: the wait performed last ("pause", "backoff")
  persisted,      \* history: records whose append completed, all processes
  interrupted,    \* history: an append was cut short after truncating the file
  stop_req,       \* history: loop_num at the shutdown signal, and whether
                  \* an iteration was in flight
  restarts,       \* history: processes started after the first
  call,           \* a function applied on its own: its name and arguments
  ret             \* what that application returned

vars ==
  << pc, running, loop_num, total_jobs, current, response, jobs_this_loop,
     leg, rally, round, futs, completed, votes, loop_data, results, LOG_FILE,
     pipeline_log, all_jobs, relay_out, err, trace, last_req, loop_input, last,
     final_out, waited, persisted, interrupted, stop_req, restarts,
     call, ret >>

NoRecord == [loop |-> 0]
NoReq == [phase |-> "none"]
NoLast == [loop |-> 0, how |-> "none", err |-> "none"]
NoStop == [loop |-> 0, inflight |-> FALSE]
PendingFut == [state |-> "pending", vote |-> "", err |-> "none", msg |-> << >>]
Absent == [exists |-> FALSE, valid |-> FALSE, recs |-> << >>]
NoCall == [fn |-> "none"]
NoRet == [done |-> FALSE]

\* the process state right after the module-level set-up, lines 183-212
ProcessStart ==
  /\ pc = "while"
  /\ running = TRUE
  /\ loop_num = 0
  /\ total_jobs = 0
  /\ current = DefaultMsg
  /\ response = << >>
  /\ jobs_this_loop = << >>
  /\ leg = 1
  /\ rally = 0
  /\ round = 0
  /\ futs = [n \in Nodes |-> PendingFut]
  /\ completed = << >>
  /\ votes = << >>
  /\ loop_data = NoRecord
  /\ results = << >>
  /\ pipeline_log = << >>
  /\ all_jobs = << >>
  /\ relay_out = << >>
  /\ err = "none"
  /\ trace = << >>
  /\ last_req = NoReq
  /\ loop_input = << >>
  /\ last = NoLast
  /\ final_out = << >>
  /\ waited = "none"
  /\ stop_req = NoStop

Init ==
  /\ ProcessStart
  /\ LOG_FILE = Absent
  /\ persisted = << >>
  /\ interrupted = FALSE
  /\ restarts = 0
  /\ call = NoCall
  /\ ret = NoRet

fileVars == << LOG_FILE, persisted, interrupted, restarts >>
runVars == << round, pipeline_log, all_jobs, relay_out >>
consVars == << futs, completed, votes >>
saveVars == << loop_data, results, total_jobs >>
histVars == << loop_input, last, final_out, waited, stop_req >>
funVars == << call, ret >>

\* the exception is swallowed where it is raised: the phase is run again
RaiseAndRetry(kind) ==
  /\ pc' = pc
  /\ err' = kind

\* an exception leaves the try block for the handler at line 317
Raise(kind) ==
  /\ pc' = "except"
  /\ err' = kind

\* every sequential call sent to the first node
InvokeOnFirstNode(phase, node, msg) ==
  /\ trace' = Append(trace, phase)
  /\ last_req' = [phase |-> phase, node |-> 1, msg |-> msg]

\* the Oracle is invoked for a sequential phase
Invoke(phase, node, msg) ==
  /\ trace' = Append(trace, phase)
  /\ last_req' = [phase |-> phase, node |-> node, msg |-> msg]

RelayLabel(l) == << "RELAY1", "RELAY2", "RELAY3" >>[l]

\* for rally in range(2) of the persistent loop
LOOP_RALLIES == 2

\* --------------------------------------------------------------------------
\* The persistent loop
\* --------------------------------------------------------------------------
\* while True: the flag is never consulted
LoopTestIgnoresFlag ==
  /\ pc = "while"
  /\ loop_num < MaxLoops
  /\ loop_num' = loop_num + 1
  /\ jobs_this_loop' = << >>
  /\ trace' = << >>
  /\ loop_input' = current
  /\ waited' = "none"
  /\ response' = << >>
  /\ leg' = 1
  /\ rally' = 0
  /\ futs' = [n \in Nodes |-> PendingFut]
  /\ completed' = << >>
  /\ votes' = << >>
  /\ loop_data' = NoRecord
  /\ results' = << >>
  /\ err' = "none"
  /\ last_req' = NoReq
  /\ pc' = "echo"
  /\ UNCHANGED << running, total_jobs, current, last, final_out, stop_req >>
  /\ UNCHANGED << fileVars, runVars >>
  /\ UNCHANGED funVars

\* the loop giving a retried iteration the number of the failed one
LoopTestReusesNumber ==
  /\ pc = "while"
  /\ IF running
     THEN /\ loop_num < MaxLoops
          /\ loop_num' = IF last.how = "fail" THEN loop_num ELSE loop_num + 1
          /\ jobs_this_loop' = << >>
          /\ trace' = << >>
          /\ loop_input' = current
          /\ waited' = "none"
          /\ response' = << >>
          /\ leg' = 1
          /\ rally' = 0
          /\ futs' = [n \in Nodes |-> PendingFut]
          /\ completed' = << >>
          /\ votes' = << >>
          /\ loop_data' = NoRecord
          /\ results' = << >>
          /\ err' = "none"
          /\ last_req' = NoReq
          /\ pc' = "echo"
     ELSE /\ pc' = "stopped"
          /\ UNCHANGED << loop_num, jobs_this_loop, trace, loop_input, waited,
                          response, leg, rally, futs, completed, votes,
                          loop_data, results, err, last_req >>
  /\ UNCHANGED << running, total_jobs, current, last, final_out, stop_req >>
  /\ UNCHANGED << fileVars, runVars >>
  /\ UNCHANGED funVars

\* while running: loop_num += 1; jobs_this_loop = [].  The locals of the
\* previous iteration are dead from here on and are cleared.
LoopTest ==
  /\ pc = "while"
  /\ IF running
     THEN /\ loop_num < MaxLoops
          /\ loop_num' = loop_num + 1
          /\ jobs_this_loop' = << >>
          /\ trace' = << >>
          /\ loop_input' = current
          /\ waited' = "none"
          /\ response' = << >>
          /\ leg' = 1
          /\ rally' = 0
          /\ futs' = [n \in Nodes |-> PendingFut]
          /\ completed' = << >>
          /\ votes' = << >>
          /\ loop_data' = NoRecord
          /\ results' = << >>
          /\ err' = "none"
          /\ last_req' = NoReq
          /\ pc' = "echo"
     ELSE /\ pc' = "stopped"
          /\ UNCHANGED << loop_num, jobs_this_loop, trace, loop_input, waited,
                          response, leg, rally, futs, completed, votes,
                          loop_data, results, err, last_req >>
  /\ UNCHANGED << running, total_jobs, current, last, final_out, stop_req >>
  /\ UNCHANGED << fileVars, runVars >>
  /\ UNCHANGED funVars

\* ECHO on backend_a
Echo ==
  /\ pc = "echo"
  /\ Invoke("ECHO", 1, SubSeq(current, 1, CircuitWidth(current)))
  /\ \/ /\ Raise("oracle")
        /\ UNCHANGED << response, jobs_this_loop, current >>
     \/ \E r \in RunAndDecode(current) :
            IF r.err = "none"
            THEN /\ response' = r.msg
                 /\ jobs_this_loop' = Append(jobs_this_loop, "ECHO")
                 /\ current' = r.msg
                 /\ pc' = "relay"
                 /\ UNCHANGED err
            ELSE /\ Raise(r.err)
                 /\ UNCHANGED << response, jobs_this_loop, current >>
  /\ UNCHANGED << running, loop_num, leg, rally >>
  /\ UNCHANGED << consVars, saveVars, histVars, fileVars, runVars >>
  /\ UNCHANGED funVars

\* RELAY leg 1, 2, 3 on backend_a, backend_b, backend_c
Relay ==
  /\ pc = "relay"
  /\ Invoke(RelayLabel(leg), leg, SubSeq(current, 1, CircuitWidth(current)))
  /\ \/ /\ Raise("oracle")
        /\ UNCHANGED << response, jobs_this_loop, current, leg >>
     \/ \E r \in RunAndDecode(current) :
            IF r.err = "none"
            THEN /\ response' = r.msg
                 /\ jobs_this_loop' = Append(jobs_this_loop, RelayLabel(leg))
                 /\ current' = r.msg
                 /\ leg' = IF leg < 3 THEN leg + 1 ELSE leg
                 /\ pc' = IF leg < 3 THEN "relay" ELSE "consensus"
                 /\ UNCHANGED err
            ELSE /\ Raise(r.err)
                 /\ UNCHANGED << response, jobs_this_loop, current, leg >>
  /\ UNCHANGED << running, loop_num, rally >>
  /\ UNCHANGED << consVars, saveVars, histVars, fileVars, runVars >>
  /\ UNCHANGED funVars

\* votes = []; futs = [ex.submit(do_vote, b, current) for b in backends]
Submit ==
  /\ pc = "consensus"
  /\ futs' = [n \in Nodes |-> [PendingFut EXCEPT !.msg = build_consensus(current)]]
  /\ votes' = << >>
  /\ completed' = << >>
  /\ pc' = "as_completed"
  /\ UNCHANGED << running, loop_num, current, response, jobs_this_loop, leg,
                  rally, err, trace, last_req >>
  /\ UNCHANGED << saveVars, histVars, fileVars, runVars >>
  /\ UNCHANGED funVars

\* one worker thread runs do_vote for node n to its end
VoteTask(n) ==
  /\ pc \in { "as_completed", "executor_exit" }
  /\ futs[n].state = "pending"
  /\ trace' = Append(trace, "CONSENSUS")
  /\ \/ futs' = [futs EXCEPT ![n] =
                     [state |-> "failed", vote |-> "", err |-> "oracle",
                      msg |-> futs[n].msg]]
     \/ \E r \in do_vote(futs[n].msg) :
          futs' = [futs EXCEPT ![n] =
                     [state |-> IF r.err = "none" THEN "done" ELSE "failed",
                      vote |-> r.vote, err |-> r.err, msg |-> futs[n].msg]]
  /\ completed' = Append(completed, n)
  /\ UNCHANGED << pc, running, loop_num, current, response, jobs_this_loop,
                  leg, rally, votes, err, last_req >>
  /\ UNCHANGED << saveVars, histVars, fileVars, runVars >>
  /\ UNCHANGED funVars

\* for f in as_completed(futs): char, jid = f.result(); votes.append(char)
Collect ==
  /\ pc = "as_completed"
  /\ Len(votes) < Len(completed)
  /\ LET n == completed[Len(votes) + 1]
     IN IF futs[n].state = "failed"
        THEN /\ pc' = "executor_exit"
             /\ err' = futs[n].err
             /\ UNCHANGED << votes, jobs_this_loop >>
        ELSE /\ votes' = Append(votes, futs[n].vote)
             /\ jobs_this_loop' = Append(jobs_this_loop, "CONSENSUS")
             /\ pc' = IF Len(votes) + 1 = Cardinality(Nodes)
                      THEN "aggregate" ELSE "as_completed"
             /\ UNCHANGED err
  /\ UNCHANGED << running, loop_num, current, response, leg, rally, futs,
                  completed, trace, last_req >>
  /\ UNCHANGED << saveVars, histVars, fileVars, runVars >>
  /\ UNCHANGED funVars

\* the exception is swallowed: the votes collected so far are aggregated
ExecutorExitAggregates ==
  /\ pc = "executor_exit"
  /\ \A n \in Nodes : futs[n].state # "pending"
  /\ pc' = "aggregate"
  /\ UNCHANGED << running, loop_num, current, response, jobs_this_loop, leg,
                  rally, err, trace, last_req >>
  /\ UNCHANGED << consVars, saveVars, histVars, fileVars, runVars >>
  /\ UNCHANGED funVars

\* the exception reaches the handler at once, the running tasks are abandoned
ExecutorExitNoWait ==
  /\ pc = "executor_exit"
  /\ futs' = [n \in Nodes |-> PendingFut]
  /\ completed' = << >>
  /\ votes' = << >>
  /\ pc' = "except"
  /\ UNCHANGED << running, loop_num, current, response, jobs_this_loop, leg,
                  rally, err, trace, last_req >>
  /\ UNCHANGED << saveVars, histVars, fileVars, runVars >>
  /\ UNCHANGED funVars

\* the exception leaves the with block: the executor waits for every task;
\* the futures and the votes are dead from here on and are cleared
ExecutorExit ==
  /\ pc = "executor_exit"
  /\ \A n \in Nodes : futs[n].state # "pending"
  /\ futs' = [n \in Nodes |-> PendingFut]
  /\ completed' = << >>
  /\ votes' = << >>
  /\ pc' = "except"
  /\ UNCHANGED << running, loop_num, current, response, jobs_this_loop, leg,
                  rally, err, trace, last_req >>
  /\ UNCHANGED << saveVars, histVars, fileVars, runVars >>
  /\ UNCHANGED funVars

\* majority, consensus, current = consensus[:5]; the futures and the votes
\* are dead from here on and are cleared
Aggregate ==
  /\ pc = "aggregate"
  /\ \E majority \in Majorities(votes) :
       current' = ConsensusMsg(votes, majority)
  /\ futs' = [n \in Nodes |-> PendingFut]
  /\ completed' = << >>
  /\ votes' = << >>
  /\ rally' = 0
  /\ pc' = "pingpong"
  /\ UNCHANGED << running, loop_num, response, jobs_this_loop, leg, err,
                  trace, last_req >>
  /\ UNCHANGED << saveVars, histVars, fileVars, runVars >>
  /\ UNCHANGED funVars

\* is_pong never set: every rally is a ping
PingLabelNoPong(r) == "PING"

PingLabel(r) == IF r % 2 = 1 THEN "PONG" ELSE "PING"

\* PING-PONG: for rally in range(2)
PingPong ==
  /\ pc = "pingpong"
  /\ Invoke(PingLabel(rally), (rally % 2) + 1,
            SubSeq(current, 1, CircuitWidth(current)))
  /\ \/ /\ Raise("oracle")
        /\ UNCHANGED << response, jobs_this_loop, current, rally >>
     \/ \E r \in RunAndDecode(current) :
            IF r.err = "none"
            THEN /\ response' = r.msg
                 /\ jobs_this_loop' = Append(jobs_this_loop, PingLabel(rally))
                 /\ current' = r.msg
                 /\ rally' = rally + 1
                 /\ pc' = IF rally + 1 < LOOP_RALLIES THEN "pingpong" ELSE "final_echo"
                 /\ UNCHANGED err
            ELSE /\ Raise(r.err)
                 /\ UNCHANGED << response, jobs_this_loop, current, rally >>
  /\ UNCHANGED << running, loop_num, leg >>
  /\ UNCHANGED << consVars, saveVars, histVars, fileVars, runVars >>
  /\ UNCHANGED funVars

\* FINAL ECHO on backend_a: response only, current keeps the ping-pong output
FinalEcho ==
  /\ pc = "final_echo"
  /\ Invoke("ECHO_FINAL", 1, SubSeq(current, 1, CircuitWidth(current)))
  /\ \/ /\ Raise("oracle")
        /\ UNCHANGED << response, final_out, jobs_this_loop >>
     \/ \E r \in RunAndDecode(current) :
            IF r.err = "none"
            THEN /\ response' = r.msg
                 /\ final_out' = r.msg
                 /\ jobs_this_loop' = Append(jobs_this_loop, "ECHO_FINAL")
                 /\ pc' = "record"
                 /\ UNCHANGED err
            ELSE /\ Raise(r.err)
                 /\ UNCHANGED << response, final_out, jobs_this_loop >>
  /\ UNCHANGED << running, loop_num, current, leg, rally >>
  /\ UNCHANGED << loop_input, last, waited, stop_req >>
  /\ UNCHANGED << consVars, saveVars, fileVars, runVars >>
  /\ UNCHANGED funVars

\* total_jobs += len(jobs_this_loop); loop_data = {...}
BuildRecord ==
  /\ pc = "record"
  /\ total_jobs' = total_jobs + Len(jobs_this_loop)
  /\ loop_data' = [loop |-> loop_num, input |-> current, output |-> response,
                   jobs |-> jobs_this_loop, job_count |-> Len(jobs_this_loop),
                   total_jobs_all_time |-> total_jobs + Len(jobs_this_loop)]
  /\ pc' = "save_read"
  /\ UNCHANGED << running, loop_num, current, response, jobs_this_loop, leg,
                  rally, results, err, trace, last_req >>
  /\ UNCHANGED << consVars, histVars, fileVars, runVars >>
  /\ UNCHANGED funVars

\* --------------------------------------------------------------------------
\* save_loop_result: read the whole file, append, rewrite the whole file
\* --------------------------------------------------------------------------
\* results = json.load(f) if the file exists and parses, else []
LoadResults(file) ==
  IF file.exists /\ file.valid THEN file.recs ELSE << >>

\* the list is started afresh instead of loaded
AppendResultFresh(file, data) == << data >>

\* results.append(data)
AppendResult(file, data) == Append(LoadResults(file), data)

\* what an interrupted json.dump can leave behind: a proper prefix of the text
PartialFiles(recs) ==
  { [exists |-> TRUE, valid |-> FALSE, recs |-> SubSeq(recs, 1, k)] :
      k \in 0..(Len(recs) - 1) }

SaveRead ==
  /\ pc = "save_read"
  /\ results' = AppendResult(LOG_FILE, loop_data)
  /\ pc' = "save_open"
  /\ UNCHANGED << running, loop_num, total_jobs, current, response,
                  jobs_this_loop, leg, rally, loop_data, err, trace, last_req >>
  /\ UNCHANGED << consVars, histVars, fileVars, runVars >>
  /\ UNCHANGED funVars

\* the new array is written to a file of its own, to be renamed over the old
SaveOpenAside ==
  /\ pc = "save_open"
  /\ \/ /\ pc' = "save_dump"
        /\ UNCHANGED err
     \/ Raise("io")
  /\ UNCHANGED << running, loop_num, current, response, jobs_this_loop, leg,
                  rally, trace, last_req >>
  /\ UNCHANGED << consVars, saveVars, histVars, fileVars, runVars >>
  /\ UNCHANGED funVars

\* open(LOG_FILE, 'w') truncates the file, or raises and leaves it alone
SaveOpen ==
  /\ pc = "save_open"
  /\ \/ /\ LOG_FILE' = [exists |-> TRUE, valid |-> FALSE, recs |-> << >>]
        /\ pc' = "save_dump"
        /\ UNCHANGED err
     \/ /\ Raise("io")
        /\ UNCHANGED LOG_FILE
  /\ UNCHANGED << running, loop_num, current, response, jobs_this_loop, leg,
                  rally, trace, last_req, persisted, interrupted, restarts >>
  /\ UNCHANGED << consVars, saveVars, histVars, runVars >>
  /\ UNCHANGED funVars

\* json.dump(results, f) and close: the whole array, or an error part-way
SaveDump ==
  /\ pc = "save_dump"
  /\ \/ /\ LOG_FILE' = [exists |-> TRUE, valid |-> TRUE, recs |-> results]
        /\ persisted' = Append(persisted, loop_data)
        /\ pc' = "feedback"
        /\ UNCHANGED << err, interrupted >>
     \/ /\ LOG_FILE' \in PartialFiles(results)
        /\ interrupted' = TRUE
        /\ Raise("io")
        /\ UNCHANGED persisted
  /\ UNCHANGED << running, loop_num, current, response, jobs_this_loop, leg,
                  rally, trace, last_req, restarts >>
  /\ UNCHANGED << consVars, saveVars, histVars, runVars >>
  /\ UNCHANGED funVars

\* the feedback assignment left out: current keeps the ping-pong output
FeedbackKeepsCurrent ==
  /\ pc = "feedback"
  /\ last' = [loop |-> loop_num, how |-> "ok", err |-> "none"]
  /\ waited' = IF running THEN "pause" ELSE "none"
  /\ pc' = "while"
  /\ UNCHANGED << running, loop_num, current, response, jobs_this_loop, leg,
                  rally, err, trace, last_req, loop_input, final_out, stop_req >>
  /\ UNCHANGED << consVars, saveVars, fileVars, runVars >>
  /\ UNCHANGED funVars

\* current = response; if running: time.sleep(10)
Feedback ==
  /\ pc = "feedback"
  /\ current' = response
  /\ last' = [loop |-> loop_num, how |-> "ok", err |-> "none"]
  /\ waited' = IF running THEN "pause" ELSE "none"
  /\ pc' = "while"
  /\ UNCHANGED << running, loop_num, response, jobs_this_loop, leg, rally,
                  err, trace, last_req, loop_input, final_out, stop_req >>
  /\ UNCHANGED << consVars, saveVars, fileVars, runVars >>
  /\ UNCHANGED funVars

\* the handler without the reset: the next loop retries the partial message
ExceptHandlerNoReset ==
  /\ pc = "except"
  /\ waited' = "backoff"
  /\ last' = [loop |-> loop_num, how |-> "fail", err |-> err]
  /\ pc' = "while"
  /\ UNCHANGED << running, loop_num, current, response, jobs_this_loop, leg,
                  rally, err, trace, last_req, loop_input, final_out, stop_req >>
  /\ UNCHANGED << consVars, saveVars, fileVars, runVars >>
  /\ UNCHANGED funVars

\* the handler catching Oracle errors only: any other error ends the process
ExceptHandlerOracleOnly ==
  /\ pc = "except"
  /\ IF err = "oracle"
     THEN /\ waited' = "backoff"
          /\ current' = DefaultMsg
          /\ pc' = "while"
     ELSE /\ pc' = "stopped"
          /\ UNCHANGED << waited, current >>
  /\ last' = [loop |-> loop_num, how |-> "fail", err |-> err]
  /\ UNCHANGED << running, loop_num, response, jobs_this_loop, leg, rally,
                  err, trace, last_req, loop_input, final_out, stop_req >>
  /\ UNCHANGED << consVars, saveVars, fileVars, runVars >>
  /\ UNCHANGED funVars

\* the handler re-raising: a failed iteration ends the process
ExceptHandlerExits ==
  /\ pc = "except"
  /\ last' = [loop |-> loop_num, how |-> "fail", err |-> err]
  /\ pc' = "stopped"
  /\ UNCHANGED << running, loop_num, current, response, jobs_this_loop, leg,
                  rally, err, trace, last_req, loop_input, final_out, waited,
                  stop_req >>
  /\ UNCHANGED << consVars, saveVars, fileVars, runVars >>
  /\ UNCHANGED funVars

\* the handler waiting only while the loop is meant to go on
ExceptHandlerWaitsIfRunning ==
  /\ pc = "except"
  /\ waited' = IF running THEN "backoff" ELSE "none"
  /\ current' = DefaultMsg
  /\ last' = [loop |-> loop_num, how |-> "fail", err |-> err]
  /\ pc' = "while"
  /\ UNCHANGED << running, loop_num, response, jobs_this_loop, leg, rally,
                  err, trace, last_req, loop_input, final_out, stop_req >>
  /\ UNCHANGED << consVars, saveVars, fileVars, runVars >>
  /\ UNCHANGED funVars

\* the handler keeping the output of a finished pipeline whose save failed
ExceptHandlerKeepsOutput ==
  /\ pc = "except"
  /\ waited' = "backoff"
  /\ current' = IF err = "io" THEN response ELSE DefaultMsg
  /\ last' = [loop |-> loop_num, how |-> "fail", err |-> err]
  /\ pc' = "while"
  /\ UNCHANGED << running, loop_num, response, jobs_this_loop, leg, rally,
                  err, trace, last_req, loop_input, final_out, stop_req >>
  /\ UNCHANGED << consVars, saveVars, fileVars, runVars >>
  /\ UNCHANGED funVars

\* except Exception: time.sleep(30); current = "NICHE"
ExceptHandler ==
  /\ pc = "except"
  /\ waited' = "backoff"
  /\ current' = DefaultMsg
  /\ last' = [loop |-> loop_num, how |-> "fail", err |-> err]
  /\ pc' = "while"
  /\ UNCHANGED << running, loop_num, response, jobs_this_loop, leg, rally,
                  err, trace, last_req, loop_input, final_out, stop_req >>
  /\ UNCHANGED << consVars, saveVars, fileVars, runVars >>
  /\ UNCHANGED funVars

alive == pc \notin { "stopped", "crashed" }

\* a handler that exits at once instead of setting the flag
shutdownAbort ==
  /\ alive
  /\ running
  /\ running' = FALSE
  /\ stop_req' = [loop |-> loop_num, inflight |-> pc # "while"]
  /\ pc' = "stopped"
  /\ UNCHANGED << loop_num, current, response, jobs_this_loop, leg, rally,
                  err, trace, last_req, loop_input, last, final_out, waited >>
  /\ UNCHANGED << consVars, saveVars, fileVars, runVars >>
  /\ UNCHANGED funVars

\* SIGTERM / SIGINT handler: running = False, nothing else
shutdown ==
  /\ alive
  /\ running
  /\ running' = FALSE
  /\ stop_req' = [loop |-> loop_num, inflight |-> pc # "while"]
  /\ UNCHANGED << pc, loop_num, current, response, jobs_this_loop, leg, rally,
                  err, trace, last_req, loop_input, last, final_out, waited >>
  /\ UNCHANGED << consVars, saveVars, fileVars, runVars >>
  /\ UNCHANGED funVars

\* the process is killed while save_loop_result runs
CrashDuringSave ==
  /\ pc \in { "save_read", "save_open", "save_dump" }
  /\ pc' = "crashed"
  /\ IF pc = "save_dump"
     THEN /\ LOG_FILE' \in PartialFiles(results)
          /\ interrupted' = TRUE
     ELSE UNCHANGED << LOG_FILE, interrupted >>
  /\ UNCHANGED << running, loop_num, current, response, jobs_this_loop, leg,
                  rally, err, trace, last_req, persisted, restarts >>
  /\ UNCHANGED << consVars, saveVars, histVars, runVars >>
  /\ UNCHANGED funVars

\* the script is started again: fresh process state, the file as it was left
Restart ==
  /\ ~alive
  /\ restarts < MaxRestarts
  /\ restarts' = restarts + 1
  /\ pc' = "while"
  /\ running' = TRUE
  /\ loop_num' = 0
  /\ total_jobs' = 0
  /\ current' = DefaultMsg
  /\ response' = << >>
  /\ jobs_this_loop' = << >>
  /\ leg' = 1
  /\ rally' = 0
  /\ futs' = [n \in Nodes |-> PendingFut]
  /\ completed' = << >>
  /\ votes' = << >>
  /\ loop_data' = NoRecord
  /\ results' = << >>
  /\ err' = "none"
  /\ trace' = << >>
  /\ last_req' = NoReq
  /\ loop_input' = << >>
  /\ last' = NoLast
  /\ final_out' = << >>
  /\ waited' = "none"
  /\ stop_req' = NoStop
  /\ UNCHANGED << LOG_FILE, persisted, interrupted, runVars >>
  /\ UNCHANGED funVars

\* a step of the program: the main thread or a consensus worker
Step ==
  \/ LoopTest
  \/ Echo
  \/ Relay
  \/ Submit
  \/ \E n \in Nodes : VoteTask(n)
  \/ Collect
  \/ ExecutorExit
  \/ Aggregate
  \/ PingPong
  \/ FinalEcho
  \/ BuildRecord
  \/ SaveRead
  \/ SaveOpen
  \/ SaveDump
  \/ Feedback
  \/ ExceptHandler

\* one process of the persistent loop, with the shutdown signal
Next ==
  \/ Step
  \/ shutdown

Spec == Init /\ [][Next]_vars

\* the main thread and the workers keep running, and every Oracle call in
\* flight returns or raises
FairSpec == Spec /\ WF_vars(Step)

\* processes that may be killed while they append, and started again
NextCrash ==
  \/ Next
  \/ CrashDuringSave
  \/ Restart

SpecCrash == Init /\ [][NextCrash]_vars

\* --------------------------------------------------------------------------
\* The single-run pipeline (luxbin_ibm_live.py; the simulator run of
\* luxbin_quantum_full_experiment.py has the same phases).  Nothing catches an
\* exception: the first one ends the pass.
\* --------------------------------------------------------------------------
\* current = "NICHO"
RunStartMsg == << "N", "I", "C", "H", "O" >>

\* for r in range(2)
RUN_ECHO_ROUNDS == 2
\* for rally in range(4)
RUN_RALLIES == 4

\* a consensus task that has not been submitted
IdleFut == [state |-> "idle", vote |-> "", err |-> "none", msg |-> << >>]

RunInit ==
  /\ pc = "run_echo"
  /\ running = TRUE
  /\ loop_num = 0
  /\ total_jobs = 0
  /\ current = RunStartMsg
  /\ response = << >>
  /\ jobs_this_loop = << >>
  /\ leg = 1
  /\ rally = 0
  /\ round = 0
  /\ futs = [n \in Nodes |-> IdleFut]
  /\ completed = << >>
  /\ votes = << >>
  /\ loop_data = NoRecord
  /\ results = << >>
  /\ pipeline_log = << >>
  /\ all_jobs = << >>
  /\ relay_out = << >>
  /\ err = "none"
  /\ trace = << >>
  /\ last_req = NoReq
  /\ loop_input = << >>
  /\ last = NoLast
  /\ final_out = << >>
  /\ waited = "none"
  /\ stop_req = NoStop
  /\ LOG_FILE = Absent
  /\ persisted = << >>
  /\ interrupted = FALSE
  /\ restarts = 0
  /\ call = NoCall
  /\ ret = NoRet

\* variables of the persistent loop, which a single run never touches
loopVars == << running, loop_num, total_jobs, jobs_this_loop, loop_data, results >>

\* an uncaught exception ends the pass
RunAbort(kind) ==
  /\ pc' = "run_aborted"
  /\ err' = kind

\* an entry that records the message decoded as its input too
LogEntryOutOnly(phase, in, out, node) ==
  [phase |-> phase, in |-> out, out |-> out, node |-> node]

\* pipeline_log.append({'phase': ..., 'in': ..., 'out': ..., 'node': ...})
LogEntry(phase, in, out, node) ==
  [phase |-> phase, in |-> in, out |-> out, node |-> node]

\* PHASE 1: ECHO LOOP, two rounds on backend_a
RunEcho ==
  /\ pc = "run_echo"
  /\ Invoke("ECHO", 1, SubSeq(current, 1, CircuitWidth(current)))
  /\ \/ /\ RunAbort("oracle")
        /\ UNCHANGED << response, all_jobs, pipeline_log, current, round >>
     \/ \E r \in RunAndDecode(current) :
            IF r.err = "none"
            THEN /\ response' = r.msg
                 /\ all_jobs' = Append(all_jobs, "ECHO")
                 /\ pipeline_log' =
                      Append(pipeline_log, LogEntry("ECHO", current, r.msg, 1))
                 /\ current' = r.msg
                 /\ round' = round + 1
                 /\ pc' = IF round + 1 < RUN_ECHO_ROUNDS
                          THEN "run_echo" ELSE "run_relay"
                 /\ UNCHANGED err
            ELSE /\ RunAbort(r.err)
                 /\ UNCHANGED << response, all_jobs, pipeline_log, current, round >>
  /\ UNCHANGED << leg, rally, relay_out, final_out >>
  /\ UNCHANGED << loop_input, last, waited, stop_req >>
  /\ UNCHANGED << consVars, loopVars, fileVars >>
  /\ UNCHANGED funVars

\* PHASE 2: RELAY RACE, legs 1, 2, 3 on backend_a, backend_b, backend_c;
\* relay_out = current after the last leg
RunRelay ==
  /\ pc = "run_relay"
  /\ Invoke(RelayLabel(leg), leg, SubSeq(current, 1, CircuitWidth(current)))
  /\ \/ /\ RunAbort("oracle")
        /\ UNCHANGED << response, all_jobs, pipeline_log, current, leg, relay_out >>
     \/ \E r \in RunAndDecode(current) :
            IF r.err = "none"
            THEN /\ response' = r.msg
                 /\ all_jobs' = Append(all_jobs, RelayLabel(leg))
                 /\ pipeline_log' =
                      Append(pipeline_log, LogEntry("RELAY", current, r.msg, leg))
                 /\ current' = r.msg
                 /\ leg' = IF leg < 3 THEN leg + 1 ELSE leg
                 /\ relay_out' = IF leg < 3 THEN relay_out ELSE r.msg
                 /\ pc' = IF leg < 3 THEN "run_relay" ELSE "run_consensus"
                 /\ UNCHANGED err
            ELSE /\ RunAbort(r.err)
                 /\ UNCHANGED << response, all_jobs, pipeline_log, current, leg,
                                 relay_out >>
  /\ UNCHANGED << round, rally, final_out >>
  /\ UNCHANGED << loop_input, last, waited, stop_req >>
  /\ UNCHANGED << consVars, loopVars, fileVars >>
  /\ UNCHANGED funVars

\* while len(current) < 5: current += 'A'
PadProposal(msg) ==
  IF Len(msg) < 5 THEN msg \o Repeat("A", 5 - Len(msg)) ELSE msg

\* PHASE 3: the proposal is padded and a vote_hw task is submitted per backend
RunSubmit ==
  /\ pc = "run_consensus"
  /\ current' = PadProposal(current)
  /\ votes' = << >>
  /\ futs' = [n \in Nodes |->
                [state |-> "pending", vote |-> "", err |-> "none",
                 msg |-> PadProposal(current)]]
  /\ completed' = << >>
  /\ pc' = "run_as_completed"
  /\ UNCHANGED << response, leg, rally, err, trace, last_req, final_out >>
  /\ UNCHANGED << loop_input, last, waited, stop_req >>
  /\ UNCHANGED << runVars, loopVars, fileVars >>
  /\ UNCHANGED funVars

\* vote_hw: the Light-channel vote of the most frequent key, as in do_vote
vote_hw(msg) == VoteOutcomes

\* one worker thread runs vote_hw for node n to its end
RunVoteTask(n) ==
  /\ futs[n].state = "pending"
  /\ trace' = Append(trace, "CONSENSUS")
  /\ \/ futs' = [futs EXCEPT ![n] =
                     [state |-> "failed", vote |-> "", err |-> "oracle",
                      msg |-> futs[n].msg]]
     \/ \E r \in vote_hw(futs[n].msg) :
          futs' = [futs EXCEPT ![n] =
                     [state |-> IF r.err = "none" THEN "done" ELSE "failed",
                      vote |-> r.vote, err |-> r.err, msg |-> futs[n].msg]]
  /\ completed' = Append(completed, n)
  /\ UNCHANGED << pc, current, response, leg, rally, votes, err, last_req,
                  final_out >>
  /\ UNCHANGED << loop_input, last, waited, stop_req >>
  /\ UNCHANGED << runVars, loopVars, fileVars >>
  /\ UNCHANGED funVars

\* the collection goes on as soon as one task has completed
RunCollectFirst ==
  /\ pc = "run_as_completed"
  /\ Len(votes) < Len(completed)
  /\ LET n == completed[Len(votes) + 1]
     IN IF futs[n].state = "failed"
        THEN /\ pc' = "run_executor_exit"
             /\ err' = futs[n].err
             /\ UNCHANGED << votes, all_jobs >>
        ELSE /\ votes' = Append(votes, futs[n].vote)
             /\ all_jobs' = Append(all_jobs, "CONSENSUS")
             /\ pc' = "run_aggregate"
             /\ UNCHANGED err
  /\ UNCHANGED << current, response, leg, rally, futs, completed, trace,
                  last_req, final_out, round, pipeline_log, relay_out >>
  /\ UNCHANGED << loop_input, last, waited, stop_req >>
  /\ UNCHANGED << loopVars, fileVars >>
  /\ UNCHANGED funVars

\* for f in as_completed(futures): v = f.result(); votes.append(v)
RunCollect ==
  /\ pc = "run_as_completed"
  /\ Len(votes) < Len(completed)
  /\ LET n == completed[Len(votes) + 1]
     IN IF futs[n].state = "failed"
        THEN /\ pc' = "run_executor_exit"
             /\ err' = futs[n].err
             /\ UNCHANGED << votes, all_jobs >>
        ELSE /\ votes' = Append(votes, futs[n].vote)
             /\ all_jobs' = Append(all_jobs, "CONSENSUS")
             /\ pc' = IF Len(votes) + 1 = Cardinality(Nodes)
                      THEN "run_aggregate" ELSE "run_as_completed"
             /\ UNCHANGED err
  /\ UNCHANGED << current, response, leg, rally, futs, completed, trace,
                  last_req, final_out, round, pipeline_log, relay_out >>
  /\ UNCHANGED << loop_input, last, waited, stop_req >>
  /\ UNCHANGED << loopVars, fileVars >>
  /\ UNCHANGED funVars

\* the exception leaves the with block, which waits for every task, and then
\* ends the pass
RunExecutorExit ==
  /\ pc = "run_executor_exit"
  /\ \A n \in Nodes : futs[n].state # "pending"
  /\ pc' = "run_aborted"
  /\ UNCHANGED << current, response, leg, rally, err, trace, last_req,
                  final_out >>
  /\ UNCHANGED << loop_input, last, waited, stop_req >>
  /\ UNCHANGED << consVars, runVars, loopVars, fileVars >>
  /\ UNCHANGED funVars

\* majority, consensus_msg, current = consensus_msg[:5]; the log entry names
\* relay_out as the input
RunAggregate ==
  /\ pc = "run_aggregate"
  /\ \E majority \in Majorities(votes) :
       /\ current' = ConsensusMsg(votes, majority)
       /\ pipeline_log' =
            Append(pipeline_log,
                   LogEntry("CONSENSUS", relay_out, ConsensusMsg(votes, majority), 0))
  /\ rally' = 0
  /\ pc' = "run_pingpong"
  /\ UNCHANGED << response, leg, err, trace, last_req, final_out, round,
                  all_jobs, relay_out >>
  /\ UNCHANGED << loop_input, last, waited, stop_req >>
  /\ UNCHANGED << consVars, loopVars, fileVars >>
  /\ UNCHANGED funVars

\* PHASE 4: PING-PONG, four rallies alternating backend_a and backend_b
RunPingPong ==
  /\ pc = "run_pingpong"
  /\ Invoke(PingLabel(rally), (rally % 2) + 1,
            SubSeq(current, 1, CircuitWidth(current)))
  /\ \/ /\ RunAbort("oracle")
        /\ UNCHANGED << response, all_jobs, pipeline_log, current, rally >>
     \/ \E r \in RunAndDecode(current) :
            IF r.err = "none"
            THEN /\ response' = r.msg
                 /\ all_jobs' = Append(all_jobs, PingLabel(rally))
                 /\ pipeline_log' =
                      Append(pipeline_log,
                             LogEntry("PINGPONG", current, r.msg, (rally % 2) + 1))
                 /\ current' = r.msg
                 /\ rally' = rally + 1
                 /\ pc' = IF rally + 1 < RUN_RALLIES
                          THEN "run_pingpong" ELSE "run_final_echo"
                 /\ UNCHANGED err
            ELSE /\ RunAbort(r.err)
                 /\ UNCHANGED << response, all_jobs, pipeline_log, current, rally >>
  /\ UNCHANGED << round, leg, relay_out, final_out >>
  /\ UNCHANGED << loop_input, last, waited, stop_req >>
  /\ UNCHANGED << consVars, loopVars, fileVars >>
  /\ UNCHANGED funVars

\* PHASE 5: FINAL ECHO on backend_a; final is the decoded message
RunFinalEcho ==
  /\ pc = "run_final_echo"
  /\ Invoke("ECHO_FINAL", 1, SubSeq(current, 1, CircuitWidth(current)))
  /\ \/ /\ RunAbort("oracle")
        /\ UNCHANGED << final_out, all_jobs, pipeline_log >>
     \/ \E r \in RunAndDecode(current) :
            IF r.err = "none"
            THEN /\ final_out' = r.msg
                 /\ all_jobs' = Append(all_jobs, "ECHO_FINAL")
                 /\ pipeline_log' =
                      Append(pipeline_log,
                             LogEntry("ECHO_FINAL", current, r.msg, 1))
                 /\ pc' = "run_done"
                 /\ UNCHANGED err
            ELSE /\ RunAbort(r.err)
                 /\ UNCHANGED << final_out, all_jobs, pipeline_log >>
  /\ UNCHANGED << current, response, round, leg, rally, relay_out >>
  /\ UNCHANGED << loop_input, last, waited, stop_req >>
  /\ UNCHANGED << consVars, loopVars, fileVars >>
  /\ UNCHANGED funVars

\* one pass of the pipeline: the main thread or a consensus worker
RunNext ==
  \/ RunEcho
  \/ RunRelay
  \/ RunSubmit
  \/ \E n \in Nodes : RunVoteTask(n)
  \/ RunCollect
  \/ RunExecutorExit
  \/ RunAggregate
  \/ RunPingPong
  \/ RunFinalEcho

SpecRun == RunInit /\ [][RunNext]_vars

\* --------------------------------------------------------------------------
\* Properties of the persistent loop
\* --------------------------------------------------------------------------
IsPrefix(s, t) == Len(s) <= Len(t) /\ SubSeq(t, 1, Len(s)) = s

\* the Oracle invocations of one iteration of luxbin_persistent_loop.py
LoopTrace ==
  << "ECHO", "RELAY1", "RELAY2", "RELAY3", "CONSENSUS", "CONSENSUS",
     "CONSENSUS", "PING", "PONG", "ECHO_FINAL" >>

\* the Oracle invocations of one pass of the Pipeline Orchestrator
OrchestratorTrace ==
  << "ECHO", "ECHO", "RELAY1", "RELAY2", "RELAY3", "CONSENSUS", "CONSENSUS",
     "CONSENSUS", "PING", "PONG", "PING", "PONG", "ECHO_FINAL" >>

afterFinalEcho == pc \in { "record", "save_read", "save_open", "save_dump", "feedback" }

\* C2 as stated: an iteration that reaches the end of its pipeline has invoked
\* the Oracle for ECHO twice, RELAY legs 1-3, CONSENSUS, four ping-pong
\* rallies and FINAL_ECHO, in that order.
C2_OrchestratorPipeline == afterFinalEcho => trace = OrchestratorTrace

\* C2 amended: at every point of an iteration the Oracle invocations so far
\* are a prefix of ECHO (once), RELAY 1, 2, 3, the three CONSENSUS calls,
\* PING, PONG, ECHO_FINAL, and an iteration past its FINAL ECHO has made all
\* of them.
C2_LoopPipeline ==
  /\ IsPrefix(trace, LoopTrace)
  /\ afterFinalEcho => trace = LoopTrace

C2_Witness == pc = "feedback" /\ loop_num = 2 /\ trace = LoopTrace

\* C3: an iteration that follows a failed one starts from "NICHE", whatever
\* message the failed iteration had reached.
C3_ResetOnError ==
  (pc = "echo" /\ last.how = "fail") =>
    /\ last.loop + 1 = loop_num
    /\ current = DefaultMsg
    /\ loop_input = DefaultMsg

C3_Witness ==
  pc = "echo" /\ last.how = "fail" /\ last.err = "oracle" /\ current = DefaultMsg

\* C4: an iteration that follows a successful one starts from the message
\* decoded by that iteration's FINAL ECHO.
C4_FeedbackOutput ==
  (pc = "echo" /\ last.how = "ok") =>
    /\ last.loop + 1 = loop_num
    /\ current = final_out
    /\ loop_input = final_out

C4_Witness ==
  pc = "echo" /\ last.how = "ok" /\ loop_input = << >> /\ final_out = << >>

\* C5: once the flag is down no further iteration starts; and a loop that
\* stopped after a signal that arrived in mid-iteration has finished that
\* iteration: if it succeeded it made every Oracle call of the pipeline and
\* its record is the last one of the file, otherwise an error ended it.
C5_ShutdownFinishesIteration ==
  /\ ~running => loop_num = stop_req.loop
  /\ (pc = "stopped" /\ stop_req.inflight) =>
       /\ last.loop = stop_req.loop
       /\ last.how = "ok" =>
            /\ trace = LoopTrace
            /\ LOG_FILE.valid
            /\ LOG_FILE.recs # << >>
            /\ LOG_FILE.recs[Len(LOG_FILE.recs)] = loop_data
            /\ loop_data.loop = stop_req.loop
       /\ last.how = "fail" => last.err \in { "oracle", "local", "io" }

C5_Witness ==
  /\ pc = "stopped"
  /\ stop_req = [loop |-> 2, inflight |-> TRUE]
  /\ last = [loop |-> 2, how |-> "ok", err |-> "none"]

\* C6: once the flag is down the loop eventually stops, and the loop is left
\* only from the loop test, never from inside an iteration.
C6_ShutdownStops ==
  /\ (~running) ~> (pc = "stopped")
  /\ [][pc' = "stopped" => pc \in { "while", "stopped" }]_vars

C6_Witness ==
  pc = "stopped" /\ ~running /\ stop_req.inflight /\ last.how = "fail"

\* C7: the loop stops only after a shutdown request, and an iteration ended
\* by an Oracle failure is followed by the start of the next iteration unless
\* shutdown is requested.
C7_FailureNeverStops ==
  /\ [](pc = "stopped" => ~running)
  /\ \A n \in 1..(MaxLoops - 1) :
       (pc = "except" /\ err = "oracle" /\ loop_num = n)
         ~> (loop_num = n + 1 \/ ~running)

C7_Witness ==
  pc = "echo" /\ running /\ loop_num = 2
    /\ last = [loop |-> 1, how |-> "fail", err |-> "oracle"]

\* C8 as stated: a local decoder error ends the loop: no iteration starts
\* after the one it was raised in.
C8_LocalErrorStopsLoop == last.err = "local" => loop_num = last.loop

\* C8 amended: every error raised inside an iteration, an Oracle failure, a
\* local decoder error or a failed write alike, is followed by the backoff
\* and the reset to "NICHE"; the loop stops only after a shutdown request.
C8_EveryErrorRecovered ==
  /\ (pc = "while" /\ last.how = "fail" /\ last.loop = loop_num) =>
       /\ last.err \in { "oracle", "local", "io" }
       /\ waited = "backoff"
       /\ current = DefaultMsg
  /\ pc = "stopped" => ~running

C8_Witness ==
  pc = "echo" /\ last.how = "fail" /\ last.err = "local"
    /\ loop_num = last.loop + 1

C10_CrashSafe == pc = "feedback" => IsPrefix(persisted, LOG_FILE.recs)

\* --------------------------------------------------------------------------
\* Properties of the single run
\* --------------------------------------------------------------------------
\* C1: at every point of a pass the Oracle invocations so far are a prefix of
\* ECHO, ECHO, RELAY 1, 2, 3, the three CONSENSUS calls, PING, PONG, PING,
\* PONG, ECHO_FINAL; a finished pass has made all of them; every phase takes
\* as its input the message the phase before it decoded.
C1_RunPhaseOrder ==
  /\ IsPrefix(trace, OrchestratorTrace)
  /\ pc = "run_done" => trace = OrchestratorTrace
  /\ \A i \in 1..(Len(pipeline_log) - 1) :
       pipeline_log[i + 1].in = pipeline_log[i].out
  /\ (pc \in { "run_echo", "run_relay", "run_pingpong", "run_final_echo" }
        /\ pipeline_log # << >>) =>
       current = pipeline_log[Len(pipeline_log)].out

C1_Witness ==
  /\ pc = "run_done"
  /\ trace = OrchestratorTrace
  /\ Len(pipeline_log) = 11

\* --------------------------------------------------------------------------
\* Functions applied on their own.  call holds the function and its
\* arguments, drawn by the initial predicate; the action applies the function
\* and stores what it returned in ret.  No variable of the program changes.
\* --------------------------------------------------------------------------
progVars ==
  << pc, running, loop_num, total_jobs, current, response, jobs_this_loop,
     leg, rally, round, futs, completed, votes, loop_data, results, LOG_FILE,
     pipeline_log, all_jobs, relay_out, err, trace, last_req, loop_input, last,
     final_out, waited, persisted, interrupted, stop_req, restarts >>

\* the program is not running
ProgIdle ==
  /\ ProcessStart
  /\ LOG_FILE = Absent
  /\ persisted = << >>
  /\ interrupted = FALSE
  /\ restarts = 0

\* --------------------------------------------------------------------------
\* The codebook: wavelength_to_char, frequency_to_char, microwave_to_char
\* --------------------------------------------------------------------------
\* probes lie up to this many half units off a table value or a midpoint
ProbeRadius == 1

Channels == { "light", "sound", "microwave" }

TableOf(ch) ==
  CASE ch = "light" -> CHAR_WAVELENGTHS
    [] ch = "sound" -> CHAR_FREQUENCIES
    [] ch = "microwave" -> CHAR_MICROWAVES

\* the probe of a call, in half units of the table: the midpoint of entries i
\* and j (entry i itself when i = j) moved by off half units
ProbeNum(c) == TableOf(c.ch)[c.i] + TableOf(c.ch)[c.j] + c.off

\* distance, in half units, of table entry k from the probe of the call
ProbeDist(c, k) == Abs(2 * TableOf(c.ch)[k] - ProbeNum(c))

SymbolIndex(sym) == CHOOSE k \in 1..Len(Symbols) : Symbols[k] = sym

CodebookInit ==
  /\ ProgIdle
  /\ call \in { [fn |-> "to_char", ch |-> ch, i |-> i, j |-> j, off |-> off] :
                  ch \in Channels, i \in 1..Len(Symbols), j \in 1..Len(Symbols),
                  off \in (-ProbeRadius)..ProbeRadius }
  /\ call.i <= call.j
  /\ ret = NoRet

\* wavelength_to_char(v), frequency_to_char(v) or microwave_to_char(v)
ToChar ==
  /\ call.fn = "to_char"
  /\ ~ret.done
  /\ ret' = [done |-> TRUE,
             val |-> NearestFirst(TableOf(call.ch), ProbeNum(call), 2)]
  /\ UNCHANGED << call, progVars >>

CodebookNext == ToChar

SpecCodebook == CodebookInit /\ [][CodebookNext]_vars

\* C17: the nearest-value function of a channel maps the table value of every
\* symbol back to that symbol.
C17_RoundTrip ==
  (ret.done /\ call.i = call.j /\ call.off = 0) => ret.val = Symbols[call.i]

C17_Witness ==
  /\ ret.done
  /\ call.ch = "microwave"
  /\ call.i = 27 /\ call.j = 27 /\ call.off = 0
  /\ ret.val = " "

\* C18: every probe is mapped to a symbol of the table; no entry is nearer to
\* the probe than the entry of that symbol, and every entry before it in
\* iteration order is strictly farther.
C18_NearestFirstInOrder ==
  ret.done =>
    /\ \E k \in 1..Len(Symbols) : ret.val = Symbols[k]
    /\ \A k \in 1..Len(Symbols) :
         ProbeDist(call, SymbolIndex(ret.val)) <= ProbeDist(call, k)
    /\ \A k \in 1..(SymbolIndex(ret.val) - 1) :
         ProbeDist(call, k) > ProbeDist(call, SymbolIndex(ret.val))

\* an exact tie between A and the space symbol, the first and the last entry
C18_Witness ==
  /\ ret.done
  /\ call.ch = "sound"
  /\ call.i = 1 /\ call.j = 27 /\ call.off = 0
  /\ ProbeDist(call, 1) = ProbeDist(call, 27)
  /\ ret.val = "A"

\* --------------------------------------------------------------------------
\* The decoder: decode_counts applied to an Outcome Distribution
\* --------------------------------------------------------------------------
\* widest key, most keys and largest count of the distributions decoded
MaxWidth == 2
MaxKeys == 2
MaxCount == 2

\* the bit patterns of one width
KeysOfWidth(w) == [1..w -> {0, 1}]

\* the Outcome Distributions of k distinct keys of width w, in every
\* insertion order, counts from 0 (a key with no occurrence) to MaxCount
Distributions(w, k) ==
  { d \in [1..k -> [key : KeysOfWidth(w), count : 0..MaxCount]] :
      \A i, j \in 1..k : i # j => d[i].key # d[j].key }

\* the same mapping key -> count in every insertion order
Reorderings(d) ==
  { [i \in 1..Len(d) |-> d[p[i]]] :
      p \in { q \in [1..Len(d) -> 1..Len(d)] :
                \A i, j \in 1..Len(d) : i # j => q[i] # q[j] } }

DecoderInit ==
  /\ ProgIdle
  /\ \E w \in 0..MaxWidth, k \in 0..MaxKeys :
       \E d \in Distributions(w, k) :
         \E n \in 0..(MaxKeys + 1) :
           call = [fn |-> "decode", counts |-> d, n_chars |-> n]
  /\ ret = NoRet

\* decode_counts(counts, n_chars)
Decode ==
  /\ call.fn = "decode"
  /\ ~ret.done
  /\ LET d == decode_counts(call.counts, call.n_chars)
     IN ret' = [done |-> TRUE, raised |-> ~d.ok, msg |-> d.msg, twice |-> FALSE]
  /\ UNCHANGED << call, progVars >>

DecoderNext == Decode

SpecDecoder == DecoderInit /\ [][DecoderNext]_vars

\* a second call, on the same mapping in any insertion order
DecodeAgain ==
  /\ call.fn = "decode"
  /\ ret.done
  /\ ~ret.twice
  /\ \E again \in Reorderings(call.counts) :
       LET d == decode_counts(again, call.n_chars)
       IN ret' = [done |-> TRUE, raised |-> ret.raised, msg |-> ret.msg,
                  twice |-> TRUE, again |-> again,
                  raised_again |-> ~d.ok, msg_again |-> d.msg]
  /\ UNCHANGED << call, progVars >>

DecoderTwiceNext ==
  \/ Decode
  \/ DecodeAgain

SpecDecoderTwice == DecoderInit /\ [][DecoderTwiceNext]_vars

\* the entries decode_counts reads: the first n_chars in rank order
Selected(c) ==
  SubSeq(SortedCounts(c.counts), 1, Min(c.n_chars, Len(c.counts)))

\* the number of the three votes that are the symbol s
VotesFor(v, s) == Cardinality({ ch \in 1..3 : v[ch] = s })

\* C11: at every decoded position a symbol that at least 2 of the 3 channels
\* vote for is the result, and without such a symbol the Light vote is; the
\* result differs from the Light vote only when Sound and Microwave agree
\* with each other and not with Light.
C11_TwoOfThreeOrLight ==
  (ret.done /\ ~ret.raised) =>
    \A i \in 1..Len(ret.msg) :
      LET v == ChannelVotes(Selected(call)[i].key)
      IN /\ \A s \in { v[1], v[2], v[3] } : VotesFor(v, s) >= 2 => ret.msg[i] = s
         /\ (\A s \in { v[1], v[2], v[3] } : VotesFor(v, s) < 2) => ret.msg[i] = v[1]
         /\ ret.msg[i] # v[1] => (v[2] = v[3] /\ v[2] # v[1])

\* one position whose channels all disagree, one where Sound and Microwave
\* outvote Light
C11_Witness ==
  /\ ret.done
  /\ call.counts = << [key |-> << 1, 0 >>, count |-> 2],
                      [key |-> << 0, 1 >>, count |-> 1] >>
  /\ call.n_chars = 2
  /\ ChannelVotes(<< 1, 0 >>) = << " ", "T", "R" >>
  /\ ChannelVotes(<< 0, 1 >>) = << "Z", "J", "J" >>
  /\ ret.msg = << " ", "J" >>

\* C12: a distribution of k >= 1 keys of width >= 1 is decoded without an
\* error, whatever the channels vote, into min(n, k) symbols of the codebook,
\* the i-th decoded from the key of rank i.
C12_OneSymbolPerKey ==
  (ret.done /\ Len(call.counts) >= 1 /\ Len(call.counts[1].key) >= 1) =>
    /\ ~ret.raised
    /\ Len(ret.msg) = Min(call.n_chars, Len(call.counts))
    /\ \A i \in 1..Len(ret.msg) :
         /\ \E k \in 1..Len(Symbols) : ret.msg[i] = Symbols[k]
         /\ ret.msg[i] = ResolveVotes(ChannelVotes(Selected(call)[i].key))

\* fewer keys than positions asked for, and a key whose channels all disagree
C12_Witness ==
  /\ ret.done
  /\ ~ret.raised
  /\ Len(call.counts) = 2
  /\ call.n_chars = 3
  /\ call.counts[1].key = << 1, 0 >>
  /\ Len(ret.msg) = 2

\* a is before b in the lexicographic order of bit patterns of one width
LexLess(a, b) ==
  \E i \in 1..Len(a) :
    /\ a[i] < b[i]
    /\ \A j \in 1..(i - 1) : a[j] = b[j]

\* the entries by count, largest first, entries of equal count by key
LexRanked(counts) ==
  LET rank(i) ==
        Cardinality({ j \in 1..Len(counts) :
                        \/ counts[j].count > counts[i].count
                        \/ /\ counts[j].count = counts[i].count
                           /\ LexLess(counts[j].key, counts[i].key) }) + 1
  IN [r \in 1..Len(counts) |->
        counts[CHOOSE i \in 1..Len(counts) : rank(i) = r]]

\* C13: the message is decoded from the top n_chars keys ranked by count,
\* largest first, keys of equal count in lexicographic order, whatever the
\* order of the keys in the distribution.
C13_LexicographicTies ==
  (ret.done /\ ~ret.raised) =>
    ret.msg = DecodeKeys(SubSeq(LexRanked(call.counts), 1,
                                Min(call.n_chars, Len(call.counts))))

\* C14: two calls on distributions with the same keys and counts return the
\* same message (or fail alike).
C14_SameMappingSameMessage ==
  (ret.done /\ ret.twice) =>
    /\ ret.raised_again = ret.raised
    /\ ret.msg_again = ret.msg

\* the sum of the counts of a distribution
TotalCount(counts) ==
  LET sum[i \in 0..Len(counts)] ==
        IF i = 0 THEN 0 ELSE sum[i - 1] + counts[i].count
  IN sum[Len(counts)]

\* C15: a distribution with no key, or whose counts sum to zero, makes the
\* decoder fail instead of returning a message.
C15_MalformedFails ==
  (ret.done /\ (call.counts = << >> \/ TotalCount(call.counts) = 0)) =>
    ret.raised

\* C16: a selected key of width 0 is decoded, without an error, into the
\* symbol the channels give for the ratio 0.5.
C16_NeutralRatio ==
  (ret.done /\ call.n_chars >= 1 /\ Len(call.counts) >= 1
            /\ call.counts[1].key = << >>) =>
    /\ ~ret.raised
    /\ ret.msg = << ResolveVotes(<< wavelength_to_char(1, 2),
                                    frequency_to_char(1, 2),
                                    microwave_to_char(1, 2) >>) >>

\* --------------------------------------------------------------------------
\* The aggregation of the node votes
\* --------------------------------------------------------------------------
\* the number of symbols the node votes are drawn from
VoteAlphabet == 3

VoteSymbols == { Symbols[k] : k \in 1..VoteAlphabet }

\* the orders in which the three node calls can complete
CompletionOrders ==
  { o \in [1..Cardinality(Nodes) -> Nodes] :
      \A i, j \in 1..Cardinality(Nodes) : i # j => o[i] # o[j] }

AggregationInit ==
  /\ ProgIdle
  /\ \E nv \in [Nodes -> VoteSymbols], o \in CompletionOrders :
       call = [fn |-> "aggregate", node_votes |-> nv, completed |-> o]
  /\ ret = NoRet

\* for f in as_completed(futs): votes.append(char); then majority, consensus
\* and current = consensus[:5]
AggregateVotes ==
  /\ call.fn = "aggregate"
  /\ ~ret.done
  /\ LET vs[i \in 0..Cardinality(Nodes)] ==
           IF i = 0 THEN << >>
           ELSE Append(vs[i - 1], call.node_votes[call.completed[i]])
         vote_list == vs[Cardinality(Nodes)]
     IN \E majority \in Majorities(vote_list) :
          ret' = [done |-> TRUE, votes |-> vote_list, majority |-> majority,
                  current |-> ConsensusMsg(vote_list, majority),
                  twice |-> FALSE]
  /\ UNCHANGED << call, progVars >>

AggregationNext == AggregateVotes

SpecAggregation == AggregationInit /\ [][AggregationNext]_vars

\* C19: when one symbol is the vote of at least two of the three nodes, the
\* majority is that symbol, and the consensus message is the three votes in
\* the order the node calls completed, then the majority twice: 5 symbols.
C19_MajorityAndPadding ==
  ret.done =>
    \A s \in VoteSymbols :
      Cardinality({ n \in Nodes : call.node_votes[n] = s }) >= 2 =>
        /\ ret.majority = s
        /\ ret.current = << call.node_votes[call.completed[1]],
                            call.node_votes[call.completed[2]],
                            call.node_votes[call.completed[3]], s, s >>

\* node 3 completes first with the minority vote: B, A, A gives BAAAA
C19_Witness ==
  /\ ret.done
  /\ call.completed = << 3, 1, 2 >>
  /\ call.node_votes = << "A", "A", "B" >>
  /\ ret.majority = "A"
  /\ ret.current = << "B", "A", "A", "A", "A" >>

\* C20: when several symbols tie for the most votes, the majority is the
\* tied symbol that comes first in the vote list.
C20_FirstSeenTie ==
  ret.done =>
    ret.majority =
      ret.votes[CHOOSE i \in 1..Len(ret.votes) :
                  /\ \A j \in 1..Len(ret.votes) :
                       Occurrences(ret.votes, ret.votes[j])
                         <= Occurrences(ret.votes, ret.votes[i])
                  /\ \A j \in 1..(i - 1) :
                       Occurrences(ret.votes, ret.votes[j])
                         < Occurrences(ret.votes, ret.votes[i])]

\* --------------------------------------------------------------------------
\* The consensus phase inside the pipeline
\* --------------------------------------------------------------------------
\* the Oracle invocation made last in this pass
LastInvoked == IF trace = << >> THEN "none" ELSE trace[Len(trace)]

\* a node task of the consensus phase has failed
NodeFailed == \E n \in Nodes : futs[n].state = "failed"

\* C21: once a node task of the CONSENSUS phase has failed, the phase yields
\* no consensus message (the current message is left alone, the aggregation
\* is never reached), the pass goes to the error handler, and the handler
\* ends the iteration with the backoff wait and the reset, recording nothing.
C21_NodeFailureFailsPass ==
  [][ /\ NodeFailed =>
           /\ pc \in { "as_completed", "executor_exit" }
           /\ pc' \in { "as_completed", "executor_exit", "except" }
           /\ current' = current
      /\ (pc = "except" /\ LastInvoked = "CONSENSUS" /\ pc' # pc) =>
           /\ pc' = "while"
           /\ waited' = "backoff"
           /\ current' = DefaultMsg
           /\ last'.how = "fail"
           /\ persisted' = persisted
           /\ LOG_FILE' = LOG_FILE ]_vars

\* an iteration ended by the Oracle failure of a node, after the handler
C21_Witness ==
  /\ pc = "while"
  /\ LastInvoked = "CONSENSUS"
  /\ last.how = "fail"
  /\ last.err = "oracle"
  /\ last.loop = loop_num
  /\ waited = "backoff"
  /\ current = DefaultMsg

\* the same node votes aggregated once more, in the same process, after the
\* tasks completed in another order: the set built from the votes, and with
\* it the choice among tied symbols, can come out differently
AggregateAgain ==
  /\ call.fn = "aggregate"
  /\ ret.done
  /\ ~ret.twice
  /\ \E o \in CompletionOrders \ { call.completed } :
       LET vs[i \in 0..Cardinality(Nodes)] ==
             IF i = 0 THEN << >>
             ELSE Append(vs[i - 1], call.node_votes[o[i]])
           vote_list == vs[Cardinality(Nodes)]
       IN \E majority \in Majorities(vote_list) :
            ret' = [done |-> TRUE, votes |-> ret.votes,
                    majority |-> ret.majority, current |-> ret.current,
                    twice |-> TRUE, completed_again |-> o,
                    votes_again |-> vote_list, majority_again |-> majority,
                    current_again |-> ConsensusMsg(vote_list, majority)]
  /\ UNCHANGED << call, progVars >>

AggregationTwiceNext ==
  \/ AggregateVotes
  \/ AggregateAgain

SpecAggregationTwice == AggregationInit /\ [][AggregationTwiceNext]_vars

\* C22: for the same node votes two completion orders give the same majority
\* and consensus messages with the same symbols the same number of times.
C22_OrderIndependent ==
  (ret.done /\ ret.twice) =>
    /\ ret.majority_again = ret.majority
    /\ \A s \in VoteSymbols :
         Occurrences(ret.current_again, s) = Occurrences(ret.current, s)

\* the number of Oracle invocations of the CONSENSUS phase in this pass
ConsensusCalls == Cardinality({ i \in 1..Len(trace) : trace[i] = "CONSENSUS" })

\* C23: during the CONSENSUS phase every node's request is the relay output
\* padded on the right with 'A' to exactly 5 symbols, fixed before any node
\* runs; every node is invoked at most once, in any order, and the votes are
\* aggregated only after each of the three was invoked exactly once.
C23_IdenticalFanOut ==
  pc \in { "as_completed", "executor_exit", "aggregate" } =>
    /\ \A n \in Nodes :
         /\ Len(futs[n].msg) = 5
         /\ \A i \in 1..5 :
              futs[n].msg[i] = IF i <= Len(current) THEN current[i] ELSE "A"
         /\ futs[n].state # "pending" <=>
              \E i \in 1..Len(completed) : completed[i] = n
    /\ current = response
    /\ \A i, j \in 1..Len(completed) : i # j => completed[i] # completed[j]
    /\ ConsensusCalls = Len(completed)
    /\ pc = "aggregate" => Len(completed) = Cardinality(Nodes)

\* node 3 answered first and node 1 last; the relay output had 2 symbols
C23_Witness ==
  /\ pc = "aggregate"
  /\ completed = << 3, 2, 1 >>
  /\ Len(current) = 2
  /\ \A n \in Nodes : futs[n].msg = current \o << "A", "A", "A" >>

\* --------------------------------------------------------------------------
\* The vote of one node: the body of do_vote after run_hw returned
\* --------------------------------------------------------------------------
\* most keys of the distributions a node votes on, and most shots
VoteKeys == 2
VoteShots == 4

\* the distributions of a 5-qubit consensus circuit: up to VoteKeys distinct
\* 5-bit keys in any insertion order, each seen at least once, of at most
\* VoteShots shots in all
VoteKeyLists(k) ==
  { keys \in [1..k -> KeysOfWidth(5)] :
      \A i, j \in 1..k : i # j => keys[i] # keys[j] }

VoteCountLists(k) ==
  { cnts \in [1..k -> 1..VoteShots] :
      TotalCount([i \in 1..k |-> [count |-> cnts[i]]]) <= VoteShots }

VoteInit ==
  /\ ProgIdle
  /\ \E k \in 0..VoteKeys :
       \E keys \in VoteKeyLists(k), cnts \in VoteCountLists(k) :
         call = [fn |-> "vote",
                 counts |-> [i \in 1..k |-> [key |-> keys[i], count |-> cnts[i]]]]
  /\ ret = NoRet

\* top = max(counts.items(), ...)[0]; val = int(top, 2); ratio = val / 31;
\* return wavelength_to_char(400 + ratio * 300)
NodeVote ==
  /\ call.fn = "vote"
  /\ ~ret.done
  /\ LET v == VoteOf(call.counts)
     IN ret' = [done |-> TRUE, raised |-> v.err # "none", vote |-> v.vote]
  /\ UNCHANGED << call, progVars >>

VoteNext == NodeVote

SpecVote == VoteInit /\ [][VoteNext]_vars

OracleFailed ==
  \/ err = "oracle"
  \/ \E n \in Nodes : futs[n].state = "failed" /\ futs[n].err = "oracle"

\* C25: from the failure of an Oracle call to the end of the iteration no
\* Oracle call is made, save the other node calls of a CONSENSUS phase already
\* submitted; no later phase is entered; nothing is written to the Loop
\* Record file, and the iteration has no record among the persisted ones.
C25_FailureAbortsPass ==
  [][ /\ (err = "none" /\ err' = "oracle" /\ pc \notin { "as_completed" }) =>
           /\ Len(trace') = Len(trace) + 1
           /\ pc' = "except"
      /\ (OracleFailed /\ pc # "while") =>
           /\ \/ trace' = trace
              \/ /\ pc \in { "as_completed", "executor_exit" }
                 /\ trace' = Append(trace, "CONSENSUS")
                 /\ ConsensusCalls < Cardinality(Nodes)
           /\ pc' \in { "as_completed", "executor_exit", "except", "while" }
           /\ persisted' = persisted
           /\ LOG_FILE' = LOG_FILE
           /\ \A i \in 1..Len(persisted) : persisted[i].loop # loop_num ]_vars

\* the second iteration failed at relay leg 2, after a recorded first one
C25_Witness ==
  /\ pc = "while"
  /\ loop_num = 2
  /\ last = [loop |-> 2, how |-> "fail", err |-> "oracle"]
  /\ trace = << "ECHO", "RELAY1", "RELAY2" >>
  /\ Len(persisted) = 1
  /\ LOG_FILE.recs = persisted

\* --------------------------------------------------------------------------
\* The length of the message a phase hands on
\* --------------------------------------------------------------------------
\* most keys of the distribution a phase decodes: more than a message holds
PhaseKeys == 6

\* the 3-bit pattern of the value v
Bits3(v) == << (v \div 4) % 2, (v \div 2) % 2, v % 2 >>

\* distributions of k keys of 3 bits, the values s, s + 1, ... (modulo 8),
\* with counts that fall, rise or are all equal in insertion order
PhaseDistribution(s, k, shape) ==
  LET d[i \in 0..k] ==
        IF i = 0 THEN << >>
        ELSE Append(d[i - 1],
                    [key |-> Bits3((s + i - 1) % 8),
                     count |-> CASE shape = "falling" -> k + 1 - i
                                 [] shape = "rising" -> i
                                 [] shape = "equal" -> 1])
  IN d[k]

PhaseInit ==
  /\ ProgIdle
  /\ \/ \E s \in 0..7, k \in 0..PhaseKeys, shape \in { "falling", "rising", "equal" } :
          call = [fn |-> "phase", counts |-> PhaseDistribution(s, k, shape)]
     \/ \E nv \in [Nodes -> VoteSymbols], o \in CompletionOrders :
          call = [fn |-> "aggregate", node_votes |-> nv, completed |-> o]
  /\ ret = NoRet

\* response, wls, freqs, mws = decode_counts(counts); current = response
PhaseDecode ==
  /\ call.fn = "phase"
  /\ ~ret.done
  /\ LET d == decode_counts(call.counts, 5)
     IN ret' = [done |-> TRUE, raised |-> ~d.ok, current |-> d.msg]
  /\ UNCHANGED << call, progVars >>

PhaseNext ==
  \/ PhaseDecode
  \/ AggregateVotes

SpecPhase == PhaseInit /\ [][PhaseNext]_vars

\* C26: the message a decoding phase hands on has one symbol per key of the
\* distribution but never more than 5, and the message the CONSENSUS phase
\* hands on has exactly 5 symbols.
C26_MessageLength ==
  ret.done =>
    /\ call.fn = "phase" =>
         /\ ~ret.raised
         /\ Len(ret.current) <= 5
         /\ Len(ret.current) = Min(Len(call.counts), 5)
    /\ call.fn = "aggregate" => Len(ret.current) = 5

\* a distribution of 6 keys decoded into 5 symbols
C26_Witness ==
  /\ ret.done
  /\ call.fn = "phase"
  /\ Len(call.counts) = 6
  /\ Len(ret.current) = 5

\* --------------------------------------------------------------------------
\* The content of the Loop Record
\* --------------------------------------------------------------------------
\* C27: the Loop Record built by an iteration has the message the iteration
\* started with as its input and the message decoded by the iteration's
\* FINAL ECHO as its output.
C27_RecordInputOutput ==
  pc \in { "save_read", "save_open", "save_dump", "feedback" } =>
    /\ loop_data.loop = loop_num
    /\ loop_data.input = loop_input
    /\ loop_data.output = final_out

\* --------------------------------------------------------------------------
\* A reader of the Loop Record file
\* --------------------------------------------------------------------------
\* another process opens and reads the file, at any moment: nothing makes it
\* wait for the writer
ReadByOther ==
  /\ call = NoCall
  /\ ret' = [done |-> TRUE, seen |-> LOG_FILE, rewriting |-> pc = "save_dump",
             previous |-> Len(persisted)]
  /\ UNCHANGED << call, progVars >>

NextWithReader ==
  \/ Next
  \/ ReadByOther

SpecReader == Init /\ [][NextWithReader]_vars

\* C28: what a reader finds while save_loop_result is between open(.., 'w')
\* and the end of json.dump is not a complete array, neither the previous one
\* nor the new one.
C28_TornRead ==
  (ret.done /\ ret.rewriting) =>
    /\ ret.seen.exists
    /\ ~ret.seen.valid
    /\ Len(ret.seen.recs) < ret.previous + 1

\* the reader found the file empty while the second record was being added
C28_Witness ==
  /\ ret.done
  /\ ret.rewriting
  /\ ret.previous = 1
  /\ ret.seen = [exists |-> TRUE, valid |-> FALSE, recs |-> << >>]

\* --------------------------------------------------------------------------
\* The Pipeline Log of a single run
\* --------------------------------------------------------------------------
\* every entry but the first takes up the message the entry before it put out
Chained(log) ==
  /\ log # << >> => log[1].in = RunStartMsg
  /\ \A i \in 1..(Len(log) - 1) : log[i + 1].in = log[i].out

\* C29: a step leaves the Pipeline Log as it is or adds one entry at its end,
\* and the log is a chain: it starts from the initial message and every later
\* entry, the CONSENSUS entry too, has the output of the entry before it as
\* its input.
C29_LogChain ==
  [][ /\ IsPrefix(pipeline_log, pipeline_log')
      /\ Len(pipeline_log') <= Len(pipeline_log) + 1
      /\ Chained(pipeline_log') ]_vars

\* a whole pass; the relay output of 2 symbols is the input of the CONSENSUS
\* entry, whose output is the input of the first rally
C29_Witness ==
  /\ pc = "run_done"
  /\ Len(pipeline_log) = 11
  /\ pipeline_log[1].in = RunStartMsg
  /\ pipeline_log[6].phase = "CONSENSUS"
  /\ pipeline_log[6].in = pipeline_log[5].out
  /\ Len(pipeline_log[6].in) = 2
  /\ pipeline_log[7].in = pipeline_log[6].out
  /\ Len(pipeline_log[7].in) = 5

\* --------------------------------------------------------------------------
\* The node of each phase
\* --------------------------------------------------------------------------
\* C30: every Oracle call of a sequential phase goes to the node of that
\* phase: ECHO and FINAL ECHO to node A; relay leg k to the k-th node; rally r
\* (from 0) to node A as a ping when r is even, to node B as a pong when odd.
C30_NodeOfPhase ==
  [][ (Len(trace') = Len(trace) + 1 /\ trace'[Len(trace')] # "CONSENSUS") =>
        LET q == last_req'
        IN /\ q.phase = trace'[Len(trace')]
           /\ pc = "run_echo" => (q.phase = "ECHO" /\ q.node = 1)
           /\ pc = "run_final_echo" => (q.phase = "ECHO_FINAL" /\ q.node = 1)
           /\ pc = "run_relay" =>
                (q.phase = << "RELAY1", "RELAY2", "RELAY3" >>[leg] /\ q.node = leg)
           /\ pc = "run_pingpong" =>
                IF rally % 2 = 0
                THEN q.phase = "PING" /\ q.node = 1
                ELSE q.phase = "PONG" /\ q.node = 2
           /\ pc \in { "run_echo", "run_final_echo", "run_relay", "run_pingpong" } ]_vars

\* the fourth rally (r = 3) was a pong on node B
C30_Witness ==
  /\ pc = "run_final_echo"
  /\ rally = 4
  /\ last_req.phase = "PONG"
  /\ last_req.node = 2

\* --------------------------------------------------------------------------
\* The standalone consensus run (luxbin_quantum_consensus.py)
\* --------------------------------------------------------------------------
\* proposal = "VOTE"
Proposal == << "V", "O", "T", "E" >>

\* the state when the three run_vote tasks have been submitted
StandaloneInit ==
  /\ pc = "sa_voting"
  /\ running = TRUE
  /\ loop_num = 0
  /\ total_jobs = 0
  /\ current = Proposal
  /\ response = << >>
  /\ jobs_this_loop = << >>
  /\ leg = 1
  /\ rally = 0
  /\ round = 0
  /\ futs = [n \in Nodes |->
               [state |-> "pending", vote |-> "", err |-> "none", msg |-> Proposal]]
  /\ completed = << >>
  /\ votes = << >>
  /\ loop_data = NoRecord
  /\ results = << >>
  /\ pipeline_log = << >>
  /\ all_jobs = << >>
  /\ relay_out = << >>
  /\ err = "none"
  /\ trace = << >>
  /\ last_req = NoReq
  /\ loop_input = << >>
  /\ last = NoLast
  /\ final_out = << >>
  /\ waited = "none"
  /\ stop_req = NoStop
  /\ LOG_FILE = Absent
  /\ persisted = << >>
  /\ interrupted = FALSE
  /\ restarts = 0
  /\ call = NoCall
  /\ ret = NoRet

\* what the standalone run never touches
standaloneFrame ==
  << running, loop_num, total_jobs, current, response, jobs_this_loop, leg,
     rally, round, loop_data, results, LOG_FILE, pipeline_log, all_jobs,
     relay_out, last_req, loop_input, last, final_out, waited, persisted,
     interrupted, stop_req, restarts, call >>

\* run_vote: the Light-channel vote of the most frequent key, as in do_vote
run_vote(msg) == VoteOutcomes

\* one worker thread runs run_vote for node n to its end
StandaloneVoteTask(n) ==
  /\ pc = "sa_voting"
  /\ futs[n].state = "pending"
  /\ trace' = Append(trace, "CONSENSUS")
  /\ \/ futs' = [futs EXCEPT ![n] =
                     [state |-> "failed", vote |-> "", err |-> "oracle",
                      msg |-> futs[n].msg]]
     \/ \E r \in run_vote(futs[n].msg) :
          futs' = [futs EXCEPT ![n] =
                     [state |-> IF r.err = "none" THEN "done" ELSE "failed",
                      vote |-> r.vote, err |-> r.err, msg |-> futs[n].msg]]
  /\ completed' = Append(completed, n)
  /\ UNCHANGED << pc, votes, err, ret >>
  /\ UNCHANGED standaloneFrame

\* the completed tasks whose result the main thread has not read yet
Unread == { i \in 1..Len(completed) : futs[completed[i]].state \in { "done", "failed" } }

\* for future in as_completed(futures): try: results.append(future.result())
\* except Exception as e: print the error
StandaloneCollect ==
  /\ pc = "sa_voting"
  /\ Unread # { }
  /\ LET i == CHOOSE k \in Unread : \A j \in Unread : k <= j
         n == completed[i]
     IN IF futs[n].state = "failed"
        THEN /\ futs' = [futs EXCEPT ![n].state = "reported"]
             /\ UNCHANGED votes
        ELSE /\ futs' = [futs EXCEPT ![n].state = "collected"]
             /\ votes' = Append(votes, futs[n].vote)
  /\ UNCHANGED << pc, completed, err, trace, ret >>
  /\ UNCHANGED standaloneFrame

\* consensus = calculate_consensus(results), after every future was read:
\* results[0] raises IndexError when no node responded
calculate_consensus ==
  /\ pc = "sa_voting"
  /\ \A n \in Nodes : futs[n].state \in { "collected", "reported" }
  /\ IF votes = << >>
     THEN /\ pc' = "sa_crashed"
          /\ err' = "local"
          /\ UNCHANGED ret
     ELSE /\ \E majority \in Majorities(votes) :
               ret' = [done |-> TRUE, majority_vote |-> majority,
                       voters |-> Len(votes)]
          /\ pc' = "sa_done"
          /\ UNCHANGED err
  /\ UNCHANGED << futs, completed, votes, trace >>
  /\ UNCHANGED standaloneFrame

StandaloneNext ==
  \/ \E n \in Nodes : StandaloneVoteTask(n)
  \/ StandaloneCollect
  \/ calculate_consensus

SpecStandalone == StandaloneInit /\ [][StandaloneNext]_vars

\* C31: a majority vote is computed only when every node's vote task
\* succeeded.
C31_NoPartialQuorum ==
  pc = "sa_done" => \A n \in Nodes : futs[n].state = "collected"

\* --------------------------------------------------------------------------
\* A failed node task and the tasks still running
\* --------------------------------------------------------------------------
\* C32: after the failure of a node task has been seen, no task is cancelled
\* (a pending task stays pending until it has run), and the step that hands
\* the failure to the error handler is taken only when all three tasks have
\* finished, all three having called the Oracle.
C32_FailureWaitsForAll ==
  [][ /\ pc = "executor_exit" =>
           /\ pc' \in { "executor_exit", "except" }
           /\ \A n \in Nodes :
                (futs[n].state = "pending" /\ pc' = "executor_exit") =>
                   futs'[n].state \in { "pending", "done", "failed" }
      /\ (pc = "executor_exit" /\ pc' = "except") =>
           /\ \A n \in Nodes : futs[n].state \in { "done", "failed" }
           /\ Len(completed) = Cardinality(Nodes)
           /\ ConsensusCalls = Cardinality(Nodes)
           /\ err' = err ]_vars

\* the failure of the task that completed first has reached the handler, and
\* the two other tasks have called the Oracle as well
C32_Witness ==
  /\ pc = "except"
  /\ LastInvoked = "CONSENSUS"
  /\ ConsensusCalls = Cardinality(Nodes)
  /\ err = "oracle"
  /\ jobs_this_loop # << >>
  /\ \A i \in 1..Len(jobs_this_loop) : jobs_this_loop[i] # "CONSENSUS"

\* --------------------------------------------------------------------------
\* The first input of a process started over an existing log
\* --------------------------------------------------------------------------
\* C33: when the process starts over a log whose last record holds an output
\* message, its first iteration starts with that output message.
C33_ResumesFromLog ==
  ( /\ pc = "echo"
    /\ loop_num = 1
    /\ LOG_FILE.valid
    /\ LOG_FILE.recs # << >>
    /\ LOG_FILE.recs[Len(LOG_FILE.recs)].output # << >> )
  => loop_input = LOG_FILE.recs[Len(LOG_FILE.recs)].output

\* --------------------------------------------------------------------------
\* The waits at the end of an iteration
\* --------------------------------------------------------------------------
\* C34: the step that ends a failed iteration always takes the backoff wait
\* and leads to the loop test, whether or not shutdown was requested; the
\* step that ends a successful iteration takes the inter-loop pause exactly
\* when shutdown has not been requested.
C34_WaitsAfterIteration ==
  [][ /\ (pc = "except" /\ pc' # pc) =>
           /\ waited' = "backoff"
           /\ pc' = "while"
      /\ (pc = "feedback" /\ pc' # pc) =>
           /\ pc' = "while"
           /\ running => waited' = "pause"
           /\ ~running => waited' = "none" ]_vars

\* shutdown was requested during an iteration that then failed: the backoff
\* wait was taken all the same
C34_Witness ==
  /\ pc = "while"
  /\ ~running
  /\ stop_req.loop = loop_num
  /\ stop_req.inflight
  /\ last.loop = loop_num
  /\ last.how = "fail"
  /\ waited = "backoff"

\* --------------------------------------------------------------------------
\* The request builders: channel values of the symbols of a message
\* --------------------------------------------------------------------------
\* longest message handed to a builder
EncodeLen == 2

\* symbols a message may hold: codebook symbols, lower case, and others
EncodeChars == { "A", "N", " ", "a", "n", "?", "1" }

LowerCase ==
  << "a", "b", "c", "d", "e", "f", "g", "h", "i", "j", "k", "l", "m",
     "n", "o", "p", "q", "r", "s", "t", "u", "v", "w", "x", "y", "z" >>

\* char.upper()
upper(char) ==
  IF \E k \in 1..Len(LowerCase) : LowerCase[k] = char
  THEN Symbols[CHOOSE k \in 1..Len(LowerCase) : LowerCase[k] = char]
  ELSE char

InCodebook(sym) == \E k \in 1..Len(Symbols) : Symbols[k] = sym

\* table[key]: raises KeyError for an absent key
subscript(table, key) ==
  IF InCodebook(key)
  THEN [raised |-> FALSE, val |-> table[SymbolIndex(key)]]
  ELSE [raised |-> TRUE, val |-> 0]

\* table.get(key, default)
get(table, key, default) ==
  IF InCodebook(key)
  THEN [raised |-> FALSE, val |-> table[SymbolIndex(key)]]
  ELSE [raised |-> FALSE, val |-> default]

\* the look-ups of encode_char written as subscripts
encode_charSubscript(char) ==
  LET wl == subscript(CHAR_WAVELENGTHS, upper(char))
      freq == subscript(CHAR_FREQUENCIES, upper(char))
      mw == subscript(CHAR_MICROWAVES, upper(char))
  IN [raised |-> wl.raised \/ freq.raised \/ mw.raised,
      wl |-> wl.val, freq |-> freq.val, mw |-> mw.val]

\* encode_char: wl, freq, mw of the symbol, from which the three rotation
\* angles are computed
encode_char(char) ==
  LET wl == get(CHAR_WAVELENGTHS, upper(char), 5403)
      freq == get(CHAR_FREQUENCIES, upper(char), 2626)
      mw == get(CHAR_MICROWAVES, upper(char), 5500)
  IN [raised |-> wl.raised \/ freq.raised \/ mw.raised,
      wl |-> wl.val, freq |-> freq.val, mw |-> mw.val]

\* the look-ups written out in the loop body of build_ping
ping_values(c) ==
  LET wl == get(CHAR_WAVELENGTHS, upper(c), 5403)
      freq == get(CHAR_FREQUENCIES, upper(c), 2626)
      mw == get(CHAR_MICROWAVES, upper(c), 5500)
  IN [raised |-> wl.raised \/ freq.raised \/ mw.raised,
      wl |-> wl.val, freq |-> freq.val, mw |-> mw.val]

Builders == { "echo", "relay", "consensus", "ping", "pong" }

\* the symbols a builder encodes: msg[:n], or the padded proposal
Encoded(builder, msg) ==
  IF builder = "consensus" THEN build_consensus(msg)
  ELSE SubSeq(msg, 1, CircuitWidth(msg))

\* the channel values a builder puts on qubit i, for every qubit
BuildRequest(builder, msg) ==
  LET m == Encoded(builder, msg)
      vals == [i \in 1..Len(m) |->
                 IF builder \in { "ping", "pong" } THEN ping_values(m[i])
                 ELSE encode_char(m[i])]
  IN [raised |-> \E i \in 1..Len(m) : vals[i].raised,
      n |-> Len(m),
      values |-> [i \in 1..Len(m) |->
                    [wl |-> vals[i].wl, freq |-> vals[i].freq, mw |-> vals[i].mw]]]

MessagesUpTo(n) == UNION { [1..k -> EncodeChars] : k \in 0..n }

EncodeInit ==
  /\ ProgIdle
  /\ call \in { [fn |-> "build", builder |-> b, msg |-> m] :
                  b \in Builders, m \in MessagesUpTo(EncodeLen) }
  /\ ret = NoRet

Build ==
  /\ call.fn = "build"
  /\ ~ret.done
  /\ LET req == BuildRequest(call.builder, call.msg)
     IN ret' = [done |-> TRUE, raised |-> req.raised, n |-> req.n,
                values |-> req.values]
  /\ UNCHANGED << call, progVars >>

EncodeNext == Build

SpecEncode == EncodeInit /\ [][EncodeNext]_vars

\* the channel values of the space symbol in the three tables
SpaceValues ==
  [wl |-> CHAR_WAVELENGTHS[SymbolIndex(" ")],
   freq |-> CHAR_FREQUENCIES[SymbolIndex(" ")],
   mw |-> CHAR_MICROWAVES[SymbolIndex(" ")]]

\* the message with every symbol absent from the codebook replaced by a space
Blanked(msg) ==
  [i \in 1..Len(msg) |-> IF InCodebook(upper(msg[i])) THEN msg[i] ELSE " "]

\* C35: no builder raises on a symbol absent from the codebook; the qubit of
\* such a symbol gets the values of the space symbol (Light 540.3, Sound
\* 262.6, Microwave 5.5), and the whole request equals the request built
\* from the message with the symbol replaced by a space.
C35_UnknownIsSpace ==
  (call.fn = "build" /\ ret.done) =>
    /\ ~ret.raised
    /\ \A i \in 1..Len(Encoded(call.builder, call.msg)) :
         ~InCodebook(upper(Encoded(call.builder, call.msg)[i])) =>
           /\ ret.values[i] = SpaceValues
           /\ ret.values[i] = [wl |-> 5403, freq |-> 2626, mw |-> 5500]
    /\ ret.values = BuildRequest(call.builder, Blanked(call.msg)).values

\* a ping request built from a message holding a symbol outside the codebook
C35_Witness ==
  /\ call.fn = "build"
  /\ ret.done
  /\ call.builder = "ping"
  /\ \E i \in 1..Len(call.msg) : ~InCodebook(upper(call.msg[i]))

\* --------------------------------------------------------------------------
\* The job counts of the persisted records
\* --------------------------------------------------------------------------
\* job_count summed over the first k records
JobCountSum(recs, k) ==
  LET sum[i \in 0..k] == IF i = 0 THEN 0 ELSE sum[i - 1] + recs[i].job_count
  IN sum[k]

\* C36: in every record this process has persisted, job_count is the length
\* of the job list, the record just persisted counts the Oracle calls of its
\* iteration, and the cumulative count of a record is the sum of job_count
\* over the records persisted up to and including it.
C36_JobCounts ==
  /\ \A k \in 1..Len(persisted) :
       /\ persisted[k].job_count = Len(persisted[k].jobs)
       /\ persisted[k].total_jobs_all_time = JobCountSum(persisted, k)
  /\ pc = "feedback" => persisted[Len(persisted)].job_count = Len(trace)

\* --------------------------------------------------------------------------
\* What a failed iteration leaves behind
\* --------------------------------------------------------------------------
\* the log as the successful iterations of this process have left it
CommittedFile ==
  IF persisted = << >> THEN Absent
  ELSE [exists |-> TRUE, valid |-> TRUE, recs |-> persisted]

\* C37: when a failed iteration has ended, the log on disk is as the
\* successful iterations left it and the cumulative job counter is the sum
\* of the job counts of their records: the failed iteration has changed
\* neither.
C37_FailureLeavesNoTrace ==
  (pc = "while" /\ last.how = "fail" /\ last.loop = loop_num) =>
    /\ LOG_FILE = CommittedFile
    /\ total_jobs = JobCountSum(persisted, Len(persisted))

\* --------------------------------------------------------------------------
\* A failed write of the Loop Record
\* --------------------------------------------------------------------------
\* C38: an error raised while the Loop Record is written goes to the error
\* handler, never to the feedback assignment; the handler takes the backoff
\* wait and resets the message to the default, and the iteration that
\* follows starts with the default message.
C38_SaveFailureIsFailure ==
  [][ /\ (pc \in { "save_read", "save_open", "save_dump" } /\ err' = "io") =>
           pc' = "except"
      /\ (pc = "except" /\ err = "io" /\ pc' # pc) =>
           /\ pc' = "while"
           /\ waited' = "backoff"
           /\ current' = DefaultMsg
           /\ last' = [loop |-> loop_num, how |-> "fail", err |-> "io"]
           /\ persisted' = persisted
      /\ (pc = "while" /\ pc' = "echo" /\ last.how = "fail" /\ last.err = "io") =>
           loop_input' = DefaultMsg ]_vars

\* every phase of the iteration succeeded, the write failed, and the next
\* iteration has started with the default message, not the FINAL ECHO output
C38_Witness ==
  /\ pc = "echo"
  /\ last = [loop |-> loop_num - 1, how |-> "fail", err |-> "io"]
  /\ final_out # << >>
  /\ final_out # DefaultMsg
  /\ loop_input = DefaultMsg

\* --------------------------------------------------------------------------
\* Loop sequence numbers and persisted records
\* --------------------------------------------------------------------------
\* the records of the log of this process carrying loop number n
RecordsOf(log, n) == { k \in 1..Len(log) : log[k].loop = n }

\* C39: every iteration, whether the one before it failed or not, takes the
\* next loop number; when a successful iteration ends exactly one persisted
\* record carries its number, when a failed iteration ends none does; and
\* the loop numbers of the persisted records are strictly increasing.
C39_OneRecordPerSuccess ==
  [][ /\ (pc = "while" /\ pc' = "echo") =>
           /\ loop_num' = loop_num + 1
           /\ persisted' = persisted
      /\ (pc = "feedback" /\ pc' = "while") =>
           /\ last'.how = "ok"
           /\ Cardinality(RecordsOf(persisted', loop_num)) = 1
      /\ (pc = "except" /\ pc' = "while") =>
           /\ last'.how = "fail"
           /\ RecordsOf(persisted', loop_num) = { }
      /\ Len(persisted') \in { Len(persisted), Len(persisted) + 1 }
      /\ \A j, k \in 1..Len(persisted') :
           j < k => persisted'[j].loop < persisted'[k].loop ]_vars

\* the first iteration failed and the second one succeeded: the only record
\* of the log carries loop number 2
C39_Witness ==
  /\ pc = "while"
  /\ last = [loop |-> 2, how |-> "ok", err |-> "none"]
  /\ Len(persisted) = 1
  /\ persisted[1].loop = 2

\* --------------------------------------------------------------------------
\* The key values that vote for a letter
\* --------------------------------------------------------------------------
\* the value of the most frequent key of a distribution, the first of them
\* when several have the largest count
TopValue(counts) ==
  IntValue(counts[CHOOSE t \in 1..Len(counts) :
                    \A j \in 1..Len(counts) :
                      /\ counts[j].count <= counts[t].count
                      /\ j < t => counts[j].count < counts[t].count].key)

\* C40: a node whose most frequent 5-bit key has value 13 or more votes the
\* space symbol; a node whose most frequent key has value 12 or less votes a
\* letter.
C40_SpaceFromThirteen ==
  (ret.done /\ call.fn = "vote" /\ call.counts # << >>) =>
    /\ ~ret.raised
    /\ TopValue(call.counts) >= 13 => ret.vote = " "
    /\ TopValue(call.counts) <= 12 =>
         /\ ret.vote # " "
         /\ \E k \in 1..26 : ret.vote = Symbols[k]

\* the most frequent key is 01101, value 13, the smallest value voting for
\* the space symbol, ahead of a key of value 12
C40_Witness ==
  /\ ret.done
  /\ call.fn = "vote"
  /\ Len(call.counts) = 2
  /\ TopValue(call.counts) = 13
  /\ \E i \in 1..2 : IntValue(call.counts[i].key) = 12
  /\ ret.vote = " "

====
